---- MODULE Spec2Model ----
(***************************************************************************)
(* Three-reel slot machine (kaminotsukai/slot-machine).                    *)
(*                                                                         *)
(* The module models three objects of the repository as state machines:    *)
(*   - StateManager  (src/src/StateManager.ts), on its own;                *)
(*   - ReelManager   (src/src/ReelManager.ts), on its own, with its        *)
(*     animation intervals as live browser timers;                         *)
(*   - the manual-stop GameEngine (src/src/GameEngine.ts), which owns a    *)
(*     StateManager, a ReelManager and a WinEvaluator.                     *)
(* The variable `subject` says which object a behaviour is about; it never *)
(* changes.  Every public call is one action.  The variables last* record  *)
(* the most recent call (operation, arguments, error thrown, value         *)
(* returned, game state before the call); stopOrder, returned and          *)
(* roundResults are history variables of the current round.                *)
(***************************************************************************)
EXTENDS Integers, Sequences, FiniteSets, TLC

VARIABLES
    subject,            \* the object under test
    symbolSet,          \* ReelManager.symbolSet: the catalog, a sequence of symbol ids
    gameState,          \* StateManager.currentState
    reelStates,         \* ReelManager.reelStates
    reelSymbols,        \* ReelManager.reelSymbols (centre symbol fixed at stop)
    reelSymbolSets,     \* ReelManager.reelSymbolSets ([top, centre, bottom] fixed at stop)
    reelPositions,      \* ReelManager.reelPositions
    animationIntervals, \* ReelManager.animationIntervals: {} is null, {h} a handle
    intervals,          \* the live window.setInterval timers: records [id, reel]
    nextTimerId,        \* the handle the next window.setInterval returns
    lastOp,             \* history: the last operation called
    lastArgs,           \* history: its arguments
    lastErr,            \* history: "none", or the kind of error it threw
    lastRet,            \* history: << >> for no value, <<v>> for the value returned
    lastPre,            \* history: gameState before the call
    stopOrder,          \* history: reels stopped since the last spin, in order
    returned,           \* history: symbol returned by stopReel(i) since the last spin
    roundResults,       \* history: results returned since the last successful spin
    winConditions,      \* WinEvaluator.winConditions
    isInitialized,      \* SlotMachineApp.isInitialized
    reelUpdateInterval, \* SlotMachineApp.reelUpdateInterval: "null", or "set" while it runs
    resultPending,      \* SlotMachineApp: the delay() a round's handler waits in, or "none"
    tornDown,           \* history: SlotMachineApp.cleanup() has been called
    spinButtonDisabled, \* UserInterface.spinButton.disabled
    stopButtonsDisabled,\* UserInterface.stopButtons[i].disabled
    isAnimating,        \* UserInterface.isAnimating
    resultDisplay,      \* UserInterface.resultDisplay: "" when empty, or the kind of message
    suspended,          \* synchronous GameEngine: initiateSpin calls suspended at the await
    visited,            \* history: game states since the last initiateSpin began
    handedOut,          \* the array the last getter returned, in the caller's hands
    ticks               \* history: animation ticks of each reel since the last spinReels,
                        \* counted in the behaviours that start with the counter on

vars == <<subject, symbolSet, gameState, reelStates, reelSymbols, reelSymbolSets,
          reelPositions, animationIntervals, intervals, nextTimerId,
          lastOp, lastArgs, lastErr, lastRet, lastPre, stopOrder, returned,
          roundResults, winConditions, isInitialized, reelUpdateInterval,
          resultPending, tornDown, spinButtonDisabled, stopButtonsDisabled,
          isAnimating, resultDisplay, suspended, visited, handedOut, ticks>>

uiVars == <<spinButtonDisabled, stopButtonsDisabled, isAnimating, resultDisplay>>

appVars == <<isInitialized, reelUpdateInterval, resultPending, tornDown, uiVars>>

syncVars == <<suspended, visited>>

rmVars == <<reelStates, reelSymbols, reelSymbolSets, reelPositions,
            animationIntervals, intervals, nextTimerId, ticks>>

-----------------------------------------------------------------------------
(* Bounds of the model *)

\* Largest catalog a behaviour is started with.
MaxCatalog == 3

\* Number of spinReels calls a behaviour may make.
MaxSpins == 2

\* Cap of the history counter roundResults.
MaxRoundResults == 2

\* Largest number of win conditions a WinEvaluator is given.
MaxWinConditions == 2

\* Cap of the history counter ticks: MaxTicks + 1 stands for every larger number.
MaxTicks == 3

\* Number of equally spaced values Math.random() is drawn from.
RandomGrid == 6

\* Number of changes a caller makes to an array a getter returned.
MaxChanges == 2

-----------------------------------------------------------------------------
(* types.ts *)

IDLE == "idle"
SPINNING == "spinning"
PARTIALLY_STOPPED == "partially_stopped"
SHOWING_RESULTS == "showing_results"

GameState == {IDLE, SPINNING, PARTIALLY_STOPPED, SHOWING_RESULTS}

DEFAULT_SYMBOLS == <<"cherry", "lemon", "orange", "plum", "bell", "bar", "seven">>

\* null, for a symbol
Null == "null"

\* A value that is no GameState, as a caller without type checking may pass.
StateInputs == GameState \cup {"invalid"}

\* A Symbol object. A field that is missing or the empty string is "".
Symbol(id, name, displayValue) ==
    [present |-> TRUE, id |-> id, name |-> name, displayValue |-> displayValue]

\* null or undefined where a Symbol is expected
NoSymbol == [present |-> FALSE, id |-> "", name |-> "", displayValue |-> ""]

\* The names and glyphs of DEFAULT_SYMBOLS, in its order. A glyph is an emoji
\* in the source; it is written here as a word in brackets.
DEFAULT_NAMES == <<"Cherry", "Lemon", "Orange", "Plum", "Bell", "Bar", "Seven">>

DEFAULT_GLYPHS ==
    <<"[cherry]", "[lemon]", "[orange]", "[plum]", "[bell]", "[bar]", "[seven]">>

\* The k-th symbol of DEFAULT_SYMBOLS as an object.
DefaultSymbol(k) == Symbol(DEFAULT_SYMBOLS[k], DEFAULT_NAMES[k], DEFAULT_GLYPHS[k])

\* An array argument: absent (null or undefined), or present with its items.
Absent == [present |-> FALSE, items |-> << >>]

Array(items) == [present |-> TRUE, items |-> items]

\* A WinCondition object. Its pattern is the name of a predicate on symbols,
\* Null when the function is missing.
WinCondition(id, name, pattern, message) ==
    [present |-> TRUE, id |-> id, name |-> name, pattern |-> pattern,
     message |-> message]

\* null or undefined where a WinCondition is expected
NoCondition ==
    [present |-> FALSE, id |-> "", name |-> "", pattern |-> Null, message |-> ""]

-----------------------------------------------------------------------------
(* StateManager *)

\* Mutant of validTransitions: ShowingResults has no way back to Idle.
validTransitions_NoReturnToIdle ==
    [s \in GameState |->
        CASE s = IDLE -> <<SPINNING>>
          [] s = SPINNING -> <<PARTIALLY_STOPPED, SHOWING_RESULTS>>
          [] s = PARTIALLY_STOPPED -> <<PARTIALLY_STOPPED, SHOWING_RESULTS>>
          [] s = SHOWING_RESULTS -> << >>]

validTransitions ==
    [s \in GameState |->
        CASE s = IDLE -> <<SPINNING>>
          [] s = SPINNING -> <<PARTIALLY_STOPPED, SHOWING_RESULTS>>
          [] s = PARTIALLY_STOPPED -> <<PARTIALLY_STOPPED, SHOWING_RESULTS>>
          [] s = SHOWING_RESULTS -> <<IDLE>>]

includes(seq, x) == \E k \in 1..Len(seq) : seq[k] = x

\* Mutant of canTransition: every self-transition is allowed.
canTransition_AllSelfLoops(from, to) ==
    IF from = to THEN TRUE
    ELSE IF from \in DOMAIN validTransitions
         THEN includes(validTransitions[from], to)
         ELSE FALSE

\* Mutant of canTransition: ShowingResults is entered from PartiallyStopped only.
canTransition_NoDirectShowingResults(from, to) ==
    IF from = to /\ from = PARTIALLY_STOPPED THEN TRUE
    ELSE IF from = to THEN FALSE
    ELSE IF from = SPINNING /\ to = SHOWING_RESULTS THEN FALSE
    ELSE IF from \in DOMAIN validTransitions
         THEN includes(validTransitions[from], to)
         ELSE FALSE

canTransition(from, to) ==
    IF from = to /\ from = PARTIALLY_STOPPED THEN TRUE
    ELSE IF from = to THEN FALSE
    ELSE IF from \in DOMAIN validTransitions
         THEN includes(validTransitions[from], to)
         ELSE FALSE

\* Mutant of transitionToState: the new state is committed without the check.
transitionToState_AlwaysCommits(current, newState) == newState

\* transitionTo: the value returned, and the state afterwards
transitionToResult(current, newState) == canTransition(current, newState)

transitionToState(current, newState) ==
    IF ~canTransition(current, newState) THEN current ELSE newState

-----------------------------------------------------------------------------
(* WinEvaluator *)

\* The messages, which are Japanese text in the source, in English.
DefaultMessage == "Congratulations! Three of a kind, you win!"

InvalidArrayMessage == "Error: invalid symbol array"

InvalidSymbolMessage == "Error: invalid symbol included"

LoseSuffix == " - Too bad! Try again next time!"

\* Mutant of three_of_a_kind: the third symbol is not compared.
three_of_a_kind_FirstTwoOnly(symbols) ==
    IF Len(symbols) # 3 THEN FALSE
    ELSE symbols[1] = symbols[2]

\* The predicate of the default condition, on the ids of the symbols.
three_of_a_kind(symbols) ==
    IF Len(symbols) # 3 THEN FALSE
    ELSE symbols[1] = symbols[2] /\ symbols[2] = symbols[3]

\* evaluateResult on three catalog symbols: [isWin, winType].
WinEvaluator_evaluateResult(symbols) ==
    IF three_of_a_kind(symbols)
    THEN [isWin |-> TRUE, winType |-> "three_of_a_kind"]
    ELSE [isWin |-> FALSE, winType |-> Null]

\* The ids of an array of symbols.
idsOf(items) == [k \in 1..Len(items) |-> items[k].id]

\* The predicate of the condition 'cherry_bonus' of WinEvaluator.test.ts.
cherry_bonus(items) ==
    Cardinality({k \in 1..Len(items) : items[k].id = "cherry"}) >= 2

\* condition.pattern(symbols), for the predicates conditions are registered with.
Patterns == {"three_of_a_kind", "cherry_bonus"}

patternHolds(pattern, items) ==
    CASE pattern = "three_of_a_kind" -> three_of_a_kind(idsOf(items))
      [] pattern = "cherry_bonus" -> cherry_bonus(items)

\* The condition the constructor installs.
DefaultCondition ==
    WinCondition("three_of_a_kind", "3-of-a-kind", "three_of_a_kind", DefaultMessage)

\* The state the SlotMachineApp constructor leaves.
InitAppVars ==
    /\ isInitialized = FALSE
    /\ reelUpdateInterval = "null"
    /\ resultPending = "none"
    /\ tornDown = FALSE
    /\ spinButtonDisabled = FALSE
    /\ stopButtonsDisabled = [i \in 0..2 |-> TRUE]
    /\ isAnimating = FALSE
    /\ resultDisplay = ""

\* No initiateSpin call of the synchronous GameEngine has begun.
InitSyncVars ==
    /\ suspended = 0
    /\ visited = << >>

\* The state the WinEvaluator constructor leaves: addWinCondition on the empty list.
InitWinEvaluator == winConditions = <<DefaultCondition>>

-----------------------------------------------------------------------------
(* History of the last call *)

\* The call returned `ret` (<< >> for void) without throwing.
Returns(op, args, ret) ==
    /\ lastOp' = op
    /\ lastArgs' = args
    /\ lastErr' = "none"
    /\ lastRet' = ret
    /\ lastPre' = gameState

\* The call threw an error of kind `err` before changing anything.
Throws(op, args, err) ==
    /\ lastOp' = op
    /\ lastArgs' = args
    /\ lastErr' = err
    /\ lastRet' = << >>
    /\ lastPre' = gameState
    /\ UNCHANGED <<gameState, rmVars, stopOrder, returned, roundResults>>

-----------------------------------------------------------------------------
(* ReelManager *)

REEL_COUNT == 3

Reels == 0..(REEL_COUNT - 1)

\* Reel indices a caller passes: every valid one, and one on each side.
ReelInputs == (0 - 1)..REEL_COUNT

\* The catalogs a ReelManager is constructed with.
Catalogs == {SubSeq(DEFAULT_SYMBOLS, 1, n) : n \in 1..MaxCatalog}

validateSymbolSet(symbols) ==
    IF ~symbols.present \/ Len(symbols.items) = 0 THEN FALSE
    ELSE \A k \in 1..Len(symbols.items) :
            /\ symbols.items[k].present
            /\ symbols.items[k].id # ""
            /\ symbols.items[k].name # ""
            /\ symbols.items[k].displayValue # ""

\* Number of spinReels calls so far: each allocates REEL_COUNT timer handles.
SpinsSoFar == (nextTimerId - 1) \div REEL_COUNT

\* getCurrentSymbolAtPosition: the symbol at the reel's position.
getCurrentSymbolAtPosition(reelIndex) ==
    symbolSet[reelPositions[reelIndex] + 1]

\* getCurrentSymbolSetAtPosition: [top, centre, bottom] at the reel's position.
getCurrentSymbolSetAtPosition(reelIndex) ==
    LET position == reelPositions[reelIndex]
        symbolSetLength == Len(symbolSet)
        topIndex == (position - 1 + symbolSetLength) % symbolSetLength
        bottomIndex == (position + 1) % symbolSetLength
    IN  <<symbolSet[topIndex + 1], symbolSet[position + 1], symbolSet[bottomIndex + 1]>>

\* Mutant of centerSymbol: the top symbol of the three is taken.
centerSymbol_TopSymbol(symbolSetAtPosition) == symbolSetAtPosition[1]

\* The centre symbol stopReel takes from the symbol set at the position.
centerSymbol(symbolSetAtPosition) == symbolSetAtPosition[2]

\* Mutant of isReelSpinning: an index out of range is reported as spinning.
isReelSpinning_TrueOutOfRange(reelIndex) ==
    IF reelIndex < 0 \/ reelIndex >= REEL_COUNT THEN TRUE
    ELSE reelStates[reelIndex] = "spinning"

isReelSpinning(reelIndex) ==
    IF reelIndex < 0 \/ reelIndex >= REEL_COUNT THEN FALSE
    ELSE reelStates[reelIndex] = "spinning"

getAllReelSymbols ==
    [i \in Reels |->
        IF reelStates[i] = "stopped" THEN reelSymbols[i]
        ELSE getCurrentSymbolAtPosition(i)]

\* Mutant of clearHeldInterval: the timer is left running.
clearHeldInterval_ClearsNothing(live, reelIndex) == live

\* clearInterval of the handle held for reel i (none when it is null).
clearHeldInterval(live, reelIndex) ==
    {t \in live : t.id \notin animationIntervals[reelIndex]}

\* No getter has returned an array yet.
NothingHandedOut == [source |-> "none", shared |-> FALSE, items |-> << >>, changes |-> 0]

\* Mutant of copyOf: the array itself is returned.
copyOf_SameArray(array) == [shared |-> TRUE, items |-> array]

\* [...array]: a new array with the entries of `array`, sharing no storage with it.
copyOf(array) == [shared |-> FALSE, items |-> array]

\* The array a getter returned, as the caller holds it.
handOut(source, array) ==
    [source |-> source, shared |-> array.shared, items |-> array.items, changes |-> 0]

\* The history counter of ticks: off, and on with no tick counted.
NotCounted == [counting |-> FALSE, n |-> [i \in Reels |-> 0]]

CountedFromZero == [counting |-> TRUE, n |-> [i \in Reels |-> 0]]

\* The history counter after spinReels.
restarted(t) == [t EXCEPT !.n = [i \in DOMAIN t.n |-> 0]]

\* Mutant of spinReels: the reels start from the position they were left at.
spinReels_KeepsPositions ==
    /\ reelStates' = [i \in Reels |-> "spinning"]
    /\ reelSymbols' = [i \in Reels |-> Null]
    /\ reelSymbolSets' = [i \in Reels |-> << >>]
    /\ intervals' = {t \in intervals : \A i \in Reels : t.id \notin animationIntervals[i]}
                      \cup {[id |-> nextTimerId + i, reel |-> i] : i \in Reels}
    /\ animationIntervals' = [i \in Reels |-> {nextTimerId + i}]
    /\ nextTimerId' = nextTimerId + REEL_COUNT
    /\ ticks' = restarted(ticks)
    /\ UNCHANGED reelPositions

\* Mutant of spinReels: the symbols fixed in the last round are kept.
spinReels_KeepsSymbols ==
    /\ reelStates' = [i \in Reels |-> "spinning"]
    /\ reelPositions' = [i \in Reels |-> 0]
    /\ intervals' = {t \in intervals : \A i \in Reels : t.id \notin animationIntervals[i]}
                      \cup {[id |-> nextTimerId + i, reel |-> i] : i \in Reels}
    /\ animationIntervals' = [i \in Reels |-> {nextTimerId + i}]
    /\ nextTimerId' = nextTimerId + REEL_COUNT
    /\ ticks' = restarted(ticks)
    /\ UNCHANGED <<reelSymbols, reelSymbolSets>>

\* spinReels: every reel spinning, its fixed symbols cleared, its position 0, and
\* startReelAnimation(i) for i = 0, 1, 2: the held interval cleared, a new one set.
spinReels ==
    /\ reelStates' = [i \in Reels |-> "spinning"]
    /\ reelSymbols' = [i \in Reels |-> Null]
    /\ reelSymbolSets' = [i \in Reels |-> << >>]
    /\ reelPositions' = [i \in Reels |-> 0]
    /\ intervals' = {t \in intervals : \A i \in Reels : t.id \notin animationIntervals[i]}
                      \cup {[id |-> nextTimerId + i, reel |-> i] : i \in Reels}
    /\ animationIntervals' = [i \in Reels |-> {nextTimerId + i}]
    /\ nextTimerId' = nextTimerId + REEL_COUNT
    /\ ticks' = restarted(ticks)

\* Mutant of stopReelError: a stopped reel is not refused.
stopReelError_NoStoppedCheck(reelIndex) ==
    IF reelIndex < 0 \/ reelIndex >= REEL_COUNT THEN "InvalidIndex"
    ELSE "none"

\* stopReel: the kind of error it throws for reelIndex, "none" when it stops the reel.
stopReelError(reelIndex) ==
    IF reelIndex < 0 \/ reelIndex >= REEL_COUNT THEN "InvalidIndex"
    ELSE IF reelStates[reelIndex] = "stopped" THEN "AlreadyStopped"
    ELSE "none"

\* Mutant of stopReelCommit: the symbol is written to every reel, not to reelIndex.
stopReelCommit_FixesAllReels(reelIndex) ==
    /\ intervals' = clearHeldInterval(intervals, reelIndex)
    /\ animationIntervals' = [animationIntervals EXCEPT ![reelIndex] = {}]
    /\ reelStates' = [reelStates EXCEPT ![reelIndex] = "stopped"]
    /\ reelSymbols' = [i \in Reels |->
                          centerSymbol(getCurrentSymbolSetAtPosition(reelIndex))]
    /\ reelSymbolSets' = [reelSymbolSets EXCEPT
                          ![reelIndex] = getCurrentSymbolSetAtPosition(reelIndex)]
    /\ UNCHANGED <<reelPositions, nextTimerId, ticks>>

\* Mutant of stopReelCommit: every reel is set to stopped.
stopReelCommit_StopsAllReels(reelIndex) ==
    /\ intervals' = clearHeldInterval(intervals, reelIndex)
    /\ animationIntervals' = [animationIntervals EXCEPT ![reelIndex] = {}]
    /\ reelStates' = [i \in Reels |-> "stopped"]
    /\ reelSymbols' = [reelSymbols EXCEPT
                          ![reelIndex] = centerSymbol(getCurrentSymbolSetAtPosition(reelIndex))]
    /\ reelSymbolSets' = [reelSymbolSets EXCEPT
                          ![reelIndex] = getCurrentSymbolSetAtPosition(reelIndex)]
    /\ UNCHANGED <<reelPositions, nextTimerId, ticks>>

\* stopReel past its checks: the animation stopped, the symbols at the position fixed.
stopReelCommit(reelIndex) ==
    /\ intervals' = clearHeldInterval(intervals, reelIndex)
    /\ animationIntervals' = [animationIntervals EXCEPT ![reelIndex] = {}]
    /\ reelStates' = [reelStates EXCEPT ![reelIndex] = "stopped"]
    /\ reelSymbols' = [reelSymbols EXCEPT
                          ![reelIndex] = centerSymbol(getCurrentSymbolSetAtPosition(reelIndex))]
    /\ reelSymbolSets' = [reelSymbolSets EXCEPT
                          ![reelIndex] = getCurrentSymbolSetAtPosition(reelIndex)]
    /\ UNCHANGED <<reelPositions, nextTimerId, ticks>>

\* One more tick of a reel on the history counter, which stops counting past
\* MaxTicks.
counted(t, reel) ==
    IF ~t.counting \/ t.n[reel] > MaxTicks THEN t
    ELSE [t EXCEPT !.n[reel] = @ + 1]

\* Mutant of Tick: the position is not wrapped at the end of the catalog.
Tick_NoWrap ==
    \E t \in intervals :
        /\ reelPositions' = [reelPositions EXCEPT ![t.reel] = reelPositions[t.reel] + 1]
        /\ ticks' = counted(ticks, t.reel)
        /\ UNCHANGED <<appVars, handedOut, syncVars, subject, symbolSet, winConditions, gameState, reelStates,
                       reelSymbols, reelSymbolSets, animationIntervals, intervals,
                       nextTimerId, stopOrder, returned, roundResults>>
        /\ Returns("tick", <<t.reel>>, << >>)

\* The callback of a live animation interval: the reel's position advances.
Tick ==
    \E t \in intervals :
        /\ reelPositions' = [reelPositions EXCEPT
                                ![t.reel] = (reelPositions[t.reel] + 1) % Len(symbolSet)]
        /\ ticks' = counted(ticks, t.reel)
        /\ UNCHANGED <<appVars, handedOut, syncVars, subject, symbolSet, winConditions, gameState, reelStates, reelSymbols,
                       reelSymbolSets, animationIntervals, intervals, nextTimerId,
                       stopOrder, returned, roundResults>>
        /\ Returns("tick", <<t.reel>>, << >>)

\* The state the ReelManager constructor leaves.
InitReels ==
    /\ symbolSet \in Catalogs
    /\ validateSymbolSet(Array([k \in 1..Len(symbolSet) |-> DefaultSymbol(k)]))
    /\ reelStates = [i \in Reels |-> "stopped"]
    /\ reelSymbols = [i \in Reels |-> Null]
    /\ reelSymbolSets = [i \in Reels |-> << >>]
    /\ reelPositions = [i \in Reels |-> 0]
    /\ animationIntervals = [i \in Reels |-> {}]
    /\ intervals = {}
    /\ nextTimerId = 1

InitCalls ==
    /\ lastOp = "none"
    /\ lastArgs = << >>
    /\ lastErr = "none"
    /\ lastRet = << >>
    /\ lastPre = gameState
    /\ stopOrder = << >>
    /\ returned = [i \in Reels |-> Null]
    /\ roundResults = 0
    /\ handedOut = NothingHandedOut

InitHistory == InitCalls /\ ticks = NotCounted

InitHistoryCounting == InitCalls /\ ticks = CountedFromZero

-----------------------------------------------------------------------------
(* ReelManager, called directly *)

ReelManager_spinReels ==
    /\ subject = "ReelManager"
    /\ SpinsSoFar < MaxSpins
    /\ spinReels
    /\ stopOrder' = << >>
    /\ returned' = [i \in Reels |-> Null]
    /\ Returns("spinReels", << >>, << >>)
    /\ UNCHANGED <<appVars, handedOut, syncVars, subject, symbolSet, winConditions, gameState, roundResults>>

ReelManager_stopReel(reelIndex) ==
    /\ subject = "ReelManager"
    /\ UNCHANGED <<appVars, handedOut, syncVars, subject, symbolSet, winConditions>>
    /\ IF stopReelError(reelIndex) # "none"
       THEN Throws("stopReel", <<reelIndex>>, stopReelError(reelIndex))
       ELSE /\ stopReelCommit(reelIndex)
            /\ stopOrder' = Append(stopOrder, reelIndex)
            /\ returned' = [returned EXCEPT
                   ![reelIndex] = centerSymbol(getCurrentSymbolSetAtPosition(reelIndex))]
            /\ Returns("stopReel", <<reelIndex>>,
                       <<centerSymbol(getCurrentSymbolSetAtPosition(reelIndex))>>)
            /\ UNCHANGED <<gameState, roundResults>>

InitRM ==
    /\ subject = "ReelManager"
    /\ InitWinEvaluator
    /\ InitAppVars
    /\ InitSyncVars
    /\ gameState = IDLE
    /\ InitReels
    /\ InitHistory

NextRM ==
    \/ ReelManager_spinReels
    \/ \E reelIndex \in ReelInputs : ReelManager_stopReel(reelIndex)
    \/ Tick

SpecRM == InitRM /\ [][NextRM]_vars

-----------------------------------------------------------------------------
(* ReelManager, called directly, with its queries *)

ReelManager_isReelSpinning(reelIndex) ==
    /\ subject = "ReelManager"
    /\ Returns("isReelSpinning", <<reelIndex>>, <<isReelSpinning(reelIndex)>>)
    /\ UNCHANGED <<appVars, handedOut, syncVars, subject, symbolSet, winConditions, gameState, rmVars, stopOrder,
                   returned, roundResults>>

ReelManager_getAllReelSymbols ==
    /\ subject = "ReelManager"
    /\ Returns("getAllReelSymbols", << >>, <<getAllReelSymbols>>)
    /\ UNCHANGED <<appVars, handedOut, syncVars, subject, symbolSet, winConditions, gameState, rmVars, stopOrder,
                   returned, roundResults>>

NextRMQ ==
    \/ NextRM
    \/ \E reelIndex \in ReelInputs : ReelManager_isReelSpinning(reelIndex)
    \/ ReelManager_getAllReelSymbols

SpecRMQ == InitRM /\ [][NextRMQ]_vars

-----------------------------------------------------------------------------
(* ReelManager, called directly, its animation ticks counted *)

InitRMCounting ==
    /\ subject = "ReelManager"
    /\ InitWinEvaluator
    /\ InitAppVars
    /\ InitSyncVars
    /\ gameState = IDLE
    /\ InitReels
    /\ InitHistoryCounting

SpecRMCounting == InitRMCounting /\ [][NextRM]_vars

-----------------------------------------------------------------------------
(* ReelManager, called directly, with its random symbol generator *)

\* Math.random() returns k / RandomGrid for a k of RandomValues.
RandomValues == 0..(RandomGrid - 1)

\* Mutant of randomIndex: the random value is ignored.
randomIndex_AlwaysZero(k, length) == 0

\* Math.floor(Math.random() * length)
randomIndex(k, length) == (k * length) \div RandomGrid

ReelManager_generateRandomSymbol(k) ==
    /\ subject = "ReelManager"
    /\ UNCHANGED <<appVars, handedOut, syncVars, subject, symbolSet, winConditions>>
    /\ IF Len(symbolSet) = 0
       THEN Throws("generateRandomSymbol", <<k>>, "NoSymbols")
       ELSE IF randomIndex(k, Len(symbolSet)) + 1 \notin DOMAIN symbolSet
       THEN Throws("generateRandomSymbol", <<k>>, "NoSymbolAtIndex")
       ELSE /\ Returns("generateRandomSymbol", <<k>>,
                       <<symbolSet[randomIndex(k, Len(symbolSet)) + 1]>>)
            /\ UNCHANGED <<gameState, rmVars, stopOrder, returned, roundResults>>

NextRMG ==
    \/ NextRMQ
    \/ \E k \in RandomValues : ReelManager_generateRandomSymbol(k)

SpecRMG == InitRM /\ [][NextRMG]_vars

-----------------------------------------------------------------------------
(* StateManager, called directly *)

StateManager_transitionTo(newState) ==
    /\ subject = "StateManager"
    /\ gameState' = transitionToState(gameState, newState)
    /\ Returns("transitionTo", <<newState>>, <<transitionToResult(gameState, newState)>>)
    /\ UNCHANGED <<appVars, handedOut, syncVars, subject, symbolSet, winConditions, rmVars, stopOrder, returned,
                   roundResults>>

StateManager_canTransition(from, to) ==
    /\ subject = "StateManager"
    /\ Returns("canTransition", <<from, to>>, <<canTransition(from, to)>>)
    /\ UNCHANGED <<appVars, handedOut, syncVars, subject, symbolSet, winConditions, gameState, rmVars, stopOrder, returned,
                   roundResults>>

\* new StateManager(initialState): any of the four states.
InitSM ==
    /\ subject = "StateManager"
    /\ InitWinEvaluator
    /\ InitAppVars
    /\ InitSyncVars
    /\ gameState \in GameState
    /\ InitReels
    /\ symbolSet = SubSeq(DEFAULT_SYMBOLS, 1, 1)
    /\ InitHistory

NextSM ==
    \/ \E newState \in StateInputs : StateManager_transitionTo(newState)
    \/ \E from \in StateInputs, to \in StateInputs : StateManager_canTransition(from, to)

SpecSM == InitSM /\ [][NextSM]_vars

-----------------------------------------------------------------------------
(* WinEvaluator, called directly *)

\* Mutant of invalidSymbol: the glyph is not checked.
invalidSymbol_GlyphUnchecked(symbol) ==
    ~symbol.present \/ symbol.id = "" \/ symbol.name = ""

\* evaluateResult's test of one symbol.
invalidSymbol(symbol) ==
    ~symbol.present \/ symbol.id = "" \/ symbol.name = "" \/ symbol.displayValue = ""

\* Mutant of loseMessage: the glyphs in the reverse order.
loseMessage_Reversed(items) ==
    items[3].displayValue \o " " \o items[2].displayValue \o " "
        \o items[1].displayValue \o LoseSuffix

\* The template string of the losing result.
loseMessage(items) ==
    items[1].displayValue \o " " \o items[2].displayValue \o " "
        \o items[3].displayValue \o LoseSuffix

\* The loop over this.winConditions from index k: the index of the first
\* condition whose pattern holds, 0 when the loop ends without one.
RECURSIVE firstMatchFrom(_, _)
firstMatchFrom(k, items) ==
    IF k > Len(winConditions) THEN 0
    ELSE IF patternHolds(winConditions[k].pattern, items) THEN k
    ELSE firstMatchFrom(k + 1, items)

\* Mutant of firstMatch: the last condition that holds is taken.
firstMatch_LastMatching(items) ==
    LET matching == {k \in 1..Len(winConditions) :
                        patternHolds(winConditions[k].pattern, items)}
    IN  IF matching = {} THEN 0
        ELSE CHOOSE k \in matching : \A j \in matching : j <= k

firstMatch(items) == firstMatchFrom(1, items)

evaluateResult(symbols) ==
    IF ~symbols.present \/ Len(symbols.items) # 3
    THEN [isWin |-> FALSE, winType |-> Null, message |-> InvalidArrayMessage]
    ELSE IF \E k \in 1..Len(symbols.items) : invalidSymbol(symbols.items[k])
    THEN [isWin |-> FALSE, winType |-> Null, message |-> InvalidSymbolMessage]
    ELSE IF firstMatch(symbols.items) # 0
    THEN [isWin |-> TRUE,
          winType |-> winConditions[firstMatch(symbols.items)].id,
          message |-> winConditions[firstMatch(symbols.items)].message]
    ELSE [isWin |-> FALSE, winType |-> Null, message |-> loseMessage(symbols.items)]

\* The number of conditions whose pattern evaluateResult calls.
patternCalls(symbols) ==
    IF ~symbols.present \/ Len(symbols.items) # 3 THEN 0
    ELSE IF \E k \in 1..Len(symbols.items) : invalidSymbol(symbols.items[k]) THEN 0
    ELSE IF firstMatch(symbols.items) # 0 THEN firstMatch(symbols.items)
    ELSE Len(winConditions)

\* Mutant of isWinningCombination: only the first condition is tried.
isWinningCombination_FirstConditionOnly(symbols) ==
    IF ~symbols.present \/ Len(symbols.items) # 3 THEN FALSE
    ELSE IF \E k \in 1..Len(symbols.items) :
                \/ ~symbols.items[k].present
                \/ symbols.items[k].id = ""
                \/ symbols.items[k].name = ""
                \/ symbols.items[k].displayValue = ""
    THEN FALSE
    ELSE patternHolds(winConditions[1].pattern, symbols.items)

isWinningCombination(symbols) ==
    IF ~symbols.present \/ Len(symbols.items) # 3 THEN FALSE
    ELSE IF \E k \in 1..Len(symbols.items) :
                \/ ~symbols.items[k].present
                \/ symbols.items[k].id = ""
                \/ symbols.items[k].name = ""
                \/ symbols.items[k].displayValue = ""
    THEN FALSE
    ELSE \E k \in 1..Len(winConditions) :
            patternHolds(winConditions[k].pattern, symbols.items)

\* Mutant of addWinConditionError: the message is not checked.
addWinConditionError_MessageUnchecked(condition) ==
    IF \/ ~condition.present
       \/ condition.id = ""
       \/ condition.name = ""
       \/ condition.pattern = Null
    THEN "InvalidCondition"
    ELSE "none"

\* addWinCondition: the kind of error it throws, "none" when it registers.
addWinConditionError(condition) ==
    IF \/ ~condition.present
       \/ condition.id = ""
       \/ condition.name = ""
       \/ condition.pattern = Null
       \/ condition.message = ""
    THEN "InvalidCondition"
    ELSE "none"

\* findIndex(c => c.id === id) from index k: 0 (-1 in the source) when none.
RECURSIVE findIndexFrom(_, _)
findIndexFrom(k, id) ==
    IF k > Len(winConditions) THEN 0
    ELSE IF winConditions[k].id = id THEN k
    ELSE findIndexFrom(k + 1, id)

\* Mutant of winConditionsAfterAdd: the condition is always pushed.
winConditionsAfterAdd_AlwaysPushes(condition) == Append(winConditions, condition)

\* addWinCondition past its check: the list it leaves.
winConditionsAfterAdd(condition) ==
    LET existingIndex == findIndexFrom(1, condition.id)
    IN  IF existingIndex >= 1
        THEN [winConditions EXCEPT ![existingIndex] = condition]
        ELSE Append(winConditions, condition)

\* The symbols and arrays of symbols a caller passes.
Cherry == DefaultSymbol(1)

Lemon == DefaultSymbol(2)

BadSymbols ==
    {NoSymbol,
     Symbol("", "Cherry", "[cherry]"),
     Symbol("cherry", "", "[cherry]"),
     Symbol("cherry", "Cherry", "")}

SymbolInputs ==
    {Absent, Array(<< >>), Array(<<Cherry, Cherry>>), Array(<<Cherry, NoSymbol>>),
     Array(<<Cherry, Cherry, Cherry, Cherry>>)}
    \cup {Array(<<a, b, c>>) : a \in {Cherry, Lemon}, b \in {Cherry, Lemon},
                               c \in {Cherry, Lemon}}
    \cup {Array([<<Cherry, Cherry, Cherry>> EXCEPT ![k] = bad]) :
              k \in 1..3, bad \in BadSymbols}

\* The conditions a caller registers.
ConditionIds == {"three_of_a_kind", "cherry_bonus", "lemon_bonus"}

Messages == {DefaultMessage, "Bonus win!"}

ConditionInputs ==
    {NoCondition,
     WinCondition("", "Bonus", "cherry_bonus", "Bonus win!"),
     WinCondition("cherry_bonus", "", "cherry_bonus", "Bonus win!"),
     WinCondition("cherry_bonus", "Bonus", Null, "Bonus win!"),
     WinCondition("cherry_bonus", "Bonus", "cherry_bonus", "")}
    \cup {WinCondition(id, "Bonus", pattern, message) :
              id \in ConditionIds, pattern \in Patterns, message \in Messages}

Call_evaluateResult(symbols) ==
    /\ subject = "WinEvaluator"
    /\ Returns("evaluateResult", <<symbols>>, <<evaluateResult(symbols)>>)
    /\ UNCHANGED <<appVars, handedOut, syncVars, subject, symbolSet, winConditions, gameState, rmVars, stopOrder,
                   returned, roundResults>>

Call_isWinningCombination(symbols) ==
    /\ subject = "WinEvaluator"
    /\ Returns("isWinningCombination", <<symbols>>, <<isWinningCombination(symbols)>>)
    /\ UNCHANGED <<appVars, handedOut, syncVars, subject, symbolSet, winConditions, gameState, rmVars, stopOrder,
                   returned, roundResults>>

Call_addWinCondition(condition) ==
    /\ subject = "WinEvaluator"
    /\ IF addWinConditionError(condition) # "none"
       THEN /\ Throws("addWinCondition", <<condition>>, addWinConditionError(condition))
            /\ UNCHANGED <<appVars, handedOut, syncVars, subject, symbolSet, winConditions>>
       ELSE /\ Len(winConditionsAfterAdd(condition)) <= MaxWinConditions
            /\ winConditions' = winConditionsAfterAdd(condition)
            /\ Returns("addWinCondition", <<condition>>, << >>)
            /\ UNCHANGED <<appVars, handedOut, syncVars, subject, symbolSet, gameState, rmVars,
                           stopOrder, returned, roundResults>>

\* new WinEvaluator()
InitWE ==
    /\ subject = "WinEvaluator"
    /\ InitWinEvaluator
    /\ InitAppVars
    /\ InitSyncVars
    /\ gameState = IDLE
    /\ InitReels
    /\ symbolSet = SubSeq(DEFAULT_SYMBOLS, 1, 1)
    /\ InitHistory

NextWE ==
    \/ \E symbols \in SymbolInputs : Call_evaluateResult(symbols)
    \/ \E symbols \in SymbolInputs : Call_isWinningCombination(symbols)
    \/ \E condition \in ConditionInputs : Call_addWinCondition(condition)

SpecWE == InitWE /\ [][NextWE]_vars

-----------------------------------------------------------------------------
(* The getters of WinEvaluator and ReelManager, and a caller that changes what
   they returned *)

\* winEvaluator.getWinConditions(), also reached as gameEngine.getWinConditions()
WinEvaluator_getWinConditions ==
    /\ subject = "WinEvaluator"
    /\ handedOut' = handOut("winConditions", copyOf(winConditions))
    /\ Returns("getWinConditions", << >>, <<winConditions>>)
    /\ UNCHANGED <<appVars, syncVars, subject, symbolSet, winConditions, gameState,
                   rmVars, stopOrder, returned, roundResults>>

\* reelManager.getSymbolSet(), also reached as gameEngine.getSymbols()
ReelManager_getSymbolSet ==
    /\ subject = "ReelManager"
    /\ handedOut' = handOut("symbolSet", copyOf(symbolSet))
    /\ Returns("getSymbolSet", << >>, <<symbolSet>>)
    /\ UNCHANGED <<appVars, syncVars, subject, symbolSet, winConditions, gameState,
                   rmVars, stopOrder, returned, roundResults>>

\* What a caller appends to the array it holds.
Appended ==
    IF handedOut.source = "winConditions"
    THEN WinCondition("cherry_bonus", "Bonus", "cherry_bonus", "Bonus win!")
    ELSE "intruder"

\* The caller leaves `items` in the array it holds: an array that shares its
\* storage with the object's own array changes that array too.
Caller_change(op, items) ==
    /\ handedOut.source # "none"
    /\ handedOut.changes < MaxChanges
    /\ handedOut' = [handedOut EXCEPT !.items = items, !.changes = @ + 1]
    /\ winConditions' = IF handedOut.shared /\ handedOut.source = "winConditions"
                        THEN items ELSE winConditions
    /\ symbolSet' = IF handedOut.shared /\ handedOut.source = "symbolSet"
                    THEN items ELSE symbolSet
    /\ Returns(op, << >>, << >>)
    /\ UNCHANGED <<appVars, syncVars, subject, gameState, rmVars, stopOrder,
                   returned, roundResults>>

\* returned.push(entry)
Caller_push ==
    /\ Len(handedOut.items) <= MaxCatalog
    /\ Caller_change("push", Append(handedOut.items, Appended))

\* returned.pop()
Caller_pop ==
    /\ handedOut.items # << >>
    /\ Caller_change("pop", SubSeq(handedOut.items, 1, Len(handedOut.items) - 1))

InitGet == InitWE \/ InitRM

\* The conditions registered between the calls of the getter.
ConditionsAdded ==
    {WinCondition(id, "Bonus", "cherry_bonus", "Bonus win!") : id \in ConditionIds}

NextGet ==
    \/ \E condition \in ConditionsAdded : Call_addWinCondition(condition)
    \/ ReelManager_spinReels
    \/ \E reelIndex \in Reels : ReelManager_stopReel(reelIndex)
    \/ Tick
    \/ WinEvaluator_getWinConditions
    \/ ReelManager_getSymbolSet
    \/ Caller_push
    \/ Caller_pop

SpecGet == InitGet /\ [][NextGet]_vars

-----------------------------------------------------------------------------
(* ReelManager, constructed by the caller *)

\* The catalogs a caller passes to the constructor.
CatalogInputs ==
    {Absent, Array(<< >>), Array(<<Cherry>>), Array(<<Cherry, Lemon>>),
     Array(<<Cherry, Symbol("cherry", "Seven", "[seven]")>>)}
    \cup {Array(<<Cherry, bad>>) : bad \in BadSymbols}

\* customSymbols || DEFAULT_SYMBOLS
symbolSetGiven(customSymbols) ==
    IF customSymbols.present THEN customSymbols
    ELSE Array([k \in 1..Len(DEFAULT_SYMBOLS) |-> DefaultSymbol(k)])

\* new ReelManager(customSymbols). The model keeps the ids of the catalog.
ReelManager_constructor(customSymbols) ==
    /\ subject = "new ReelManager"
    /\ IF ~validateSymbolSet(symbolSetGiven(customSymbols))
       THEN /\ Throws("constructor", <<customSymbols>>, "InvalidSymbolSet")
            /\ UNCHANGED <<appVars, handedOut, syncVars, subject, symbolSet, winConditions>>
       ELSE /\ subject' = "ReelManager"
            /\ symbolSet' = idsOf(symbolSetGiven(customSymbols).items)
            /\ reelStates' = [i \in Reels |-> "stopped"]
            /\ reelSymbols' = [i \in Reels |-> Null]
            /\ reelSymbolSets' = [i \in Reels |-> << >>]
            /\ reelPositions' = [i \in Reels |-> 0]
            /\ animationIntervals' = [i \in Reels |-> {}]
            /\ UNCHANGED <<intervals, nextTimerId, ticks>>
            /\ Returns("constructor", <<customSymbols>>, << >>)
            /\ UNCHANGED <<appVars, handedOut, syncVars, winConditions, gameState, stopOrder,
                           returned, roundResults>>

\* No ReelManager yet.
InitNew ==
    /\ subject = "new ReelManager"
    /\ InitWinEvaluator
    /\ InitAppVars
    /\ InitSyncVars
    /\ gameState = IDLE
    /\ symbolSet = << >>
    /\ reelStates = [i \in Reels |-> "stopped"]
    /\ reelSymbols = [i \in Reels |-> Null]
    /\ reelSymbolSets = [i \in Reels |-> << >>]
    /\ reelPositions = [i \in Reels |-> 0]
    /\ animationIntervals = [i \in Reels |-> {}]
    /\ intervals = {}
    /\ nextTimerId = 1
    /\ InitHistory

NextNew ==
    \/ \E customSymbols \in CatalogInputs : ReelManager_constructor(customSymbols)
    \/ NextRM

SpecNew == InitNew /\ [][NextNew]_vars

-----------------------------------------------------------------------------
(* GameEngine (manual stop) *)

canSpin_AlsoWhenShowingResults == gameState \in {IDLE, SHOWING_RESULTS}

canSpin == gameState = IDLE

\* The reel states after reel reelIndex has been stopped.
reelStatesAfterStop(reelIndex) == [reelStates EXCEPT ![reelIndex] = "stopped"]

\* Mutant of allStopped: one stopped reel is taken for all of them.
allStopped_AnyStopped(states) == \E i \in Reels : states[i] # "spinning"

\* allStopped, as stopReel computes it after stopping the reel.
allStopped(states) == \A i \in Reels : states[i] # "spinning"

areAllReelsStopped ==
    ~isReelSpinning(0) /\ ~isReelSpinning(1) /\ ~isReelSpinning(2)

\* Mutant of stateAfterStop: the first stop does not enter PartiallyStopped.
stateAfterStop_NoPartiallyStopped(currentState, stoppedAll) ==
    IF stoppedAll THEN transitionToState(currentState, SHOWING_RESULTS)
    ELSE currentState

\* The game state stopReel leaves, from the state it read at its start.
stateAfterStop(currentState, stoppedAll) ==
    IF stoppedAll THEN transitionToState(currentState, SHOWING_RESULTS)
    ELSE IF currentState = SPINNING
         THEN transitionToState(currentState, PARTIALLY_STOPPED)
         ELSE currentState

\* stopReel's first check passes: the state is Spinning or PartiallyStopped.
stopAllowedIn_OnlySpinning(currentState) == currentState = SPINNING

stopAllowedIn(currentState) ==
    ~(currentState # SPINNING /\ currentState # PARTIALLY_STOPPED)

\* Mutant of initiateSpin: the reels are spun before the state is checked.
GameEngine_initiateSpin_SpinsBeforeCheck ==
    /\ subject = "GameEngine"
    /\ UNCHANGED <<appVars, handedOut, syncVars, subject, symbolSet, winConditions>>
    /\ SpinsSoFar < MaxSpins
    /\ spinReels
    /\ lastOp' = "initiateSpin"
    /\ lastArgs' = << >>
    /\ lastRet' = << >>
    /\ lastPre' = gameState
    /\ IF ~canSpin
       THEN /\ lastErr' = "CannotSpin"
            /\ UNCHANGED <<gameState, stopOrder, returned, roundResults>>
       ELSE /\ lastErr' = "none"
            /\ gameState' = transitionToState(gameState, SPINNING)
            /\ stopOrder' = << >>
            /\ returned' = [i \in Reels |-> Null]
            /\ roundResults' = 0

GameEngine_initiateSpin ==
    /\ subject = "GameEngine"
    /\ UNCHANGED <<appVars, handedOut, syncVars, subject, symbolSet, winConditions>>
    /\ IF ~canSpin
       THEN Throws("initiateSpin", << >>, "CannotSpin")
       ELSE IF ~transitionToResult(gameState, SPINNING)
       THEN Throws("initiateSpin", << >>, "TransitionFailed")
       ELSE /\ SpinsSoFar < MaxSpins
            /\ gameState' = transitionToState(gameState, SPINNING)
            /\ spinReels
            /\ stopOrder' = << >>
            /\ returned' = [i \in Reels |-> Null]
            /\ roundResults' = 0
            /\ Returns("initiateSpin", << >>, << >>)

GameEngine_stopReel(reelIndex) ==
    /\ subject = "GameEngine"
    /\ UNCHANGED <<appVars, handedOut, syncVars, subject, symbolSet, winConditions>>
    /\ IF ~stopAllowedIn(gameState)
       THEN Throws("stopReel", <<reelIndex>>, "IllegalState")
       ELSE IF ~isReelSpinning(reelIndex)
       THEN Throws("stopReel", <<reelIndex>>, "AlreadyStopped")
       ELSE IF stopReelError(reelIndex) # "none"
       THEN Throws("stopReel", <<reelIndex>>, stopReelError(reelIndex))
       ELSE /\ stopReelCommit(reelIndex)
            /\ gameState' = stateAfterStop(gameState,
                                allStopped(reelStatesAfterStop(reelIndex)))
            /\ stopOrder' = Append(stopOrder, reelIndex)
            /\ returned' = [returned EXCEPT
                   ![reelIndex] = centerSymbol(getCurrentSymbolSetAtPosition(reelIndex))]
            /\ Returns("stopReel", <<reelIndex>>,
                       <<centerSymbol(getCurrentSymbolSetAtPosition(reelIndex))>>)
            /\ UNCHANGED roundResults

GameEngine_evaluateResult ==
    /\ subject = "GameEngine"
    /\ UNCHANGED <<appVars, handedOut, syncVars, subject, symbolSet, winConditions>>
    /\ IF ~areAllReelsStopped
       THEN Throws("evaluateResult", << >>, "NotAllStopped")
       ELSE IF \E i \in Reels : getAllReelSymbols[i] = Null
       THEN Throws("evaluateResult", << >>, "NullSymbol")
       ELSE /\ gameState' = transitionToState(gameState, IDLE)
            /\ roundResults' = IF roundResults < MaxRoundResults
                               THEN roundResults + 1 ELSE roundResults
            /\ Returns("evaluateResult", << >>,
                       <<[symbols |-> getAllReelSymbols,
                          winResult |-> WinEvaluator_evaluateResult(
                              [k \in 1..REEL_COUNT |-> getAllReelSymbols[k - 1]])]>>)
            /\ UNCHANGED <<rmVars, stopOrder, returned>>

\* new GameEngine(customSymbols)
Init ==
    /\ subject = "GameEngine"
    /\ InitWinEvaluator
    /\ InitAppVars
    /\ InitSyncVars
    /\ gameState = IDLE
    /\ InitReels
    /\ InitHistory

Next ==
    \/ GameEngine_initiateSpin
    \/ \E reelIndex \in ReelInputs : GameEngine_stopReel(reelIndex)
    \/ GameEngine_evaluateResult
    \/ Tick

Spec == Init /\ [][Next]_vars

\* The player keeps pressing the stop button of every reel and the result is
\* asked for: a stop of each reel, and evaluateResult, are taken if they stay
\* possible.
FairStopAndEvaluate ==
    /\ \A reelIndex \in Reels : WF_vars(GameEngine_stopReel(reelIndex))
    /\ WF_vars(GameEngine_evaluateResult)

SpecLive == Init /\ [][Next]_vars /\ FairStopAndEvaluate

-----------------------------------------------------------------------------
(* GameEngine (manual stop), its animation ticks counted.  The catalog has two
   symbols or more: with one symbol the count says nothing of the position. *)

InitCounting ==
    /\ subject = "GameEngine"
    /\ InitWinEvaluator
    /\ InitAppVars
    /\ InitSyncVars
    /\ gameState = IDLE
    /\ InitReels
    /\ Len(symbolSet) > 1
    /\ InitHistoryCounting

SpecCounting == InitCounting /\ [][Next]_vars

-----------------------------------------------------------------------------
(* A ReelManager or a GameEngine: the two objects that offer stopReel *)

InitStop == InitRM \/ Init

NextStop == NextRM \/ Next

SpecStop == InitStop /\ [][NextStop]_vars

-----------------------------------------------------------------------------
(* GameEngine (synchronous-complete) *)

\* reelManager.spinReels() as this engine awaits it: the promise resolves with
\* three symbols drawn from the catalog, or it is rejected.
Draws == [1..REEL_COUNT -> {symbolSet[k] : k \in 1..Len(symbolSet)}]

Failures == {"none", "draw", "evaluate"}

\* The states a call has been through, with the state a transitionTo leaves.
visit(states, state) ==
    IF states[Len(states)] = state THEN states ELSE Append(states, state)

\* Mutant of syncSpinError: no call is rejected.
syncSpinError_NeverRejects == "none"

\* initiateSpin before its try block: the kind of error it throws, or "none".
syncSpinError ==
    IF ~canSpin THEN "CannotSpin"
    ELSE IF ~transitionToResult(gameState, SPINNING) THEN "TransitionFailed"
    ELSE "none"

\* Mutant of stateAfterFailure: the catch block asks for Idle only.
stateAfterFailure_StraightToIdle(state) == transitionToState(state, IDLE)

\* The catch block: transitionTo(SHOWING_RESULTS), then transitionTo(IDLE).
stateAfterFailure(state) ==
    transitionToState(transitionToState(state, SHOWING_RESULTS), IDLE)

\* initiateSpin from its call to the await of reelManager.spinReels().
Sync_initiateSpin ==
    /\ subject = "SyncGameEngine"
    /\ IF syncSpinError # "none"
       THEN /\ Throws("initiateSpin", << >>, syncSpinError)
            /\ UNCHANGED <<appVars, handedOut, syncVars, subject, symbolSet, winConditions>>
       ELSE /\ gameState' = transitionToState(gameState, SPINNING)
            /\ suspended' = suspended + 1
            /\ visited' = visit(<<gameState>>, transitionToState(gameState, SPINNING))
            /\ Returns("await", << >>, << >>)
            /\ UNCHANGED <<appVars, handedOut, subject, symbolSet, winConditions, rmVars,
                           stopOrder, returned, roundResults>>

\* The end of a resumed call: the error thrown through the catch block.
SyncThrows(state, err) ==
    /\ gameState' = stateAfterFailure(state)
    /\ visited' = visit(visit(visit(visited, state),
                              transitionToState(state, SHOWING_RESULTS)),
                        stateAfterFailure(state))
    /\ lastErr' = err
    /\ lastRet' = << >>

\* initiateSpin from the settling of the awaited promise to its end. Here
\* roundResults counts the results the engine has returned.
Sync_resume(symbols, failure) ==
    /\ subject = "SyncGameEngine"
    /\ suspended > 0
    /\ suspended' = suspended - 1
    /\ lastOp' = "initiateSpin"
    /\ lastArgs' = << >>
    /\ lastPre' = gameState
    /\ LET showing == transitionToState(gameState, SHOWING_RESULTS)
           back == transitionToState(showing, IDLE)
       IN  IF failure = "draw" THEN SyncThrows(gameState, "DrawFailed")
           ELSE IF ~transitionToResult(gameState, SHOWING_RESULTS)
           THEN SyncThrows(gameState, "TransitionFailed")
           ELSE IF failure = "evaluate" THEN SyncThrows(showing, "EvaluationFailed")
           ELSE IF ~transitionToResult(showing, IDLE)
           THEN SyncThrows(showing, "TransitionFailed")
           ELSE /\ gameState' = back
                /\ visited' = visit(visit(visited, showing), back)
                /\ lastErr' = "none"
                /\ lastRet' = <<[symbols |-> symbols,
                                 winResult |-> WinEvaluator_evaluateResult(symbols)]>>
    /\ roundResults' = IF failure = "none" /\ roundResults < MaxRoundResults
                       THEN roundResults + 1 ELSE roundResults
    /\ UNCHANGED <<appVars, handedOut, subject, symbolSet, winConditions, rmVars, stopOrder,
                   returned>>

Sync_canSpin ==
    /\ subject = "SyncGameEngine"
    /\ Returns("canSpin", << >>, <<canSpin>>)
    /\ UNCHANGED <<appVars, handedOut, syncVars, subject, symbolSet, winConditions, gameState,
                   rmVars, stopOrder, returned, roundResults>>

\* new GameEngine(customSymbols)
InitSync ==
    /\ subject = "SyncGameEngine"
    /\ InitWinEvaluator
    /\ InitAppVars
    /\ InitSyncVars
    /\ gameState = IDLE
    /\ InitReels
    /\ InitHistory

NextSync ==
    \/ Sync_initiateSpin
    \/ \E symbols \in Draws, failure \in Failures : Sync_resume(symbols, failure)
    \/ Sync_canSpin

SpecSync == InitSync /\ [][NextSync]_vars

\* The awaited promise settles and the call is resumed.
SpecSyncLive ==
    InitSync /\ [][NextSync]_vars
        /\ WF_vars(\E symbols \in Draws, failure \in Failures :
                       Sync_resume(symbols, failure))

-----------------------------------------------------------------------------
(* SlotMachineApp: the GameEngine behind the buttons of the UserInterface *)

\* The buttons are in the document and their callbacks are registered:
\* initialize() has registered them and cleanup() has not emptied the container.
clickable == isInitialized /\ ~tornDown

\* displaySpinButton(enabled): spinButton.disabled afterwards; nothing changes
\* once cleanup() has set spinButton to null.
displaySpinButton(enabled) == IF tornDown THEN spinButtonDisabled ELSE ~enabled

\* Mutant of displayStopButtons: every stop button is enabled.
displayStopButtons_AllEnabled(enabledStates) ==
    IF tornDown THEN stopButtonsDisabled ELSE [i \in Reels |-> FALSE]

\* displayStopButtons(enabledStates): stopButtons[i].disabled afterwards.
displayStopButtons(enabledStates) ==
    IF tornDown THEN stopButtonsDisabled ELSE [i \in Reels |-> ~enabledStates[i]]

\* displayResult(result): the result display afterwards; resultDisplay is null
\* after cleanup().
displayResult(kind) == IF tornDown THEN resultDisplay ELSE kind

\* stopReelSymbolUpdates: the value of reelUpdateInterval afterwards.
stopReelSymbolUpdates(interval) == IF interval # "null" THEN "null" ELSE interval

\* startReelSymbolUpdates: the previous interval is cancelled, a new one is set.
startReelSymbolUpdates(interval) ==
    LET cancelled == stopReelSymbolUpdates(interval) IN "set"

\* app.initialize()
App_initialize ==
    /\ subject = "SlotMachineApp"
    /\ UNCHANGED <<syncVars, handedOut, subject, symbolSet, winConditions, gameState, rmVars,
                   stopOrder, returned, roundResults,
                   reelUpdateInterval, resultPending, tornDown, isAnimating,
                   resultDisplay>>
    /\ IF isInitialized \/ gameState # IDLE
       THEN UNCHANGED <<isInitialized, spinButtonDisabled, stopButtonsDisabled>>
       ELSE /\ spinButtonDisabled' = displaySpinButton(TRUE)
            /\ stopButtonsDisabled' = displayStopButtons([i \in Reels |-> FALSE])
            /\ isInitialized' = TRUE
    /\ lastOp' = "initialize"
    /\ lastArgs' = << >>
    /\ lastErr' = "none"
    /\ lastRet' = << >>
    /\ lastPre' = gameState

\* Mutant of the spin click: handleSpin goes on when canSpin() is false.
App_handleSpin_NoChecks ==
    /\ subject = "SlotMachineApp"
    /\ clickable
    /\ UNCHANGED <<syncVars, handedOut, subject, symbolSet, winConditions,
                   isInitialized, resultPending, tornDown>>
    /\ SpinsSoFar < MaxSpins
    /\ spinButtonDisabled' = displaySpinButton(FALSE)
    /\ isAnimating' = TRUE
    /\ resultDisplay' = ""
    /\ gameState' = SPINNING
    /\ spinReels
    /\ stopOrder' = << >>
    /\ returned' = [i \in Reels |-> Null]
    /\ roundResults' = 0
    /\ stopButtonsDisabled' = displayStopButtons([i \in Reels |-> TRUE])
    /\ reelUpdateInterval' = startReelSymbolUpdates(reelUpdateInterval)
    /\ Returns("spinClick", << >>, << >>)

\* A click on the spin button.  A disabled button dispatches no click event;
\* handleSpinClick calls handleSpin unless the reels are animating; handleSpin
\* returns when canSpin() is false.
App_handleSpin ==
    /\ subject = "SlotMachineApp"
    /\ clickable
    /\ UNCHANGED <<syncVars, handedOut, subject, symbolSet, winConditions,
                   isInitialized, resultPending, tornDown>>
    /\ IF spinButtonDisabled \/ isAnimating \/ ~canSpin
       THEN /\ Throws("spinClick", << >>, "Ignored")
            /\ UNCHANGED <<reelUpdateInterval, uiVars>>
       ELSE IF ~transitionToResult(gameState, SPINNING)
       THEN /\ Throws("spinClick", << >>, "TransitionFailed")
            /\ spinButtonDisabled' = displaySpinButton(TRUE)
            /\ stopButtonsDisabled' = displayStopButtons([i \in Reels |-> FALSE])
            /\ resultDisplay' = displayResult("error")
            /\ isAnimating' = TRUE
            /\ UNCHANGED reelUpdateInterval
       ELSE /\ SpinsSoFar < MaxSpins
            /\ spinButtonDisabled' = displaySpinButton(FALSE)
            /\ isAnimating' = TRUE
            /\ resultDisplay' = ""
            /\ gameState' = transitionToState(gameState, SPINNING)
            /\ spinReels
            /\ stopOrder' = << >>
            /\ returned' = [i \in Reels |-> Null]
            /\ roundResults' = 0
            /\ stopButtonsDisabled' = displayStopButtons([i \in Reels |-> TRUE])
            /\ reelUpdateInterval' = startReelSymbolUpdates(reelUpdateInterval)
            /\ Returns("spinClick", << >>, << >>)

\* A click on the stop button of a reel, which a disabled button does not
\* dispatch: handleStopReel(reelIndex), up to its first await.  An error of
\* stopReel is caught and shown as a message.  The UserInterface marks a reel
\* element as spinning and as stopped where the handlers spin and stop the reel,
\* so that its isAnimating ends with the stop of the last spinning reel.
App_handleStopReel(reelIndex) ==
    /\ subject = "SlotMachineApp"
    /\ clickable
    /\ UNCHANGED <<syncVars, handedOut, subject, symbolSet, winConditions,
                   isInitialized, tornDown, spinButtonDisabled>>
    /\ IF stopButtonsDisabled[reelIndex]
       THEN /\ Throws("stopClick", <<reelIndex>>, "Ignored")
            /\ UNCHANGED <<reelUpdateInterval, resultPending, stopButtonsDisabled,
                           isAnimating, resultDisplay>>
       ELSE IF ~stopAllowedIn(gameState) \/ ~isReelSpinning(reelIndex)
               \/ stopReelError(reelIndex) # "none"
       THEN /\ Throws("stopClick", <<reelIndex>>,
                      IF ~stopAllowedIn(gameState) THEN "IllegalState"
                      ELSE IF ~isReelSpinning(reelIndex) THEN "AlreadyStopped"
                      ELSE stopReelError(reelIndex))
            /\ resultDisplay' = displayResult("error")
            /\ UNCHANGED <<reelUpdateInterval, resultPending, stopButtonsDisabled,
                           isAnimating>>
       ELSE /\ stopReelCommit(reelIndex)
            /\ gameState' = stateAfterStop(gameState,
                                allStopped(reelStatesAfterStop(reelIndex)))
            /\ stopOrder' = Append(stopOrder, reelIndex)
            /\ returned' = [returned EXCEPT
                   ![reelIndex] = centerSymbol(getCurrentSymbolSetAtPosition(reelIndex))]
            /\ Returns("stopClick", <<reelIndex>>, << >>)
            /\ stopButtonsDisabled' = displayStopButtons(
                   [i \in Reels |-> reelStatesAfterStop(reelIndex)[i] = "spinning"])
            /\ UNCHANGED <<roundResults, resultDisplay>>
            /\ IF allStopped(reelStatesAfterStop(reelIndex))
               THEN /\ isAnimating' = FALSE
                    /\ reelUpdateInterval' = stopReelSymbolUpdates(reelUpdateInterval)
                    /\ resultPending' = "delay300"
               ELSE UNCHANGED <<isAnimating, reelUpdateInterval, resultPending>>

\* The delay(300) of handleStopReel ends: handleGameResult() runs up to its
\* delay(2000).  An error of evaluateResult is caught.
App_handleGameResult ==
    /\ subject = "SlotMachineApp"
    /\ resultPending = "delay300"
    /\ UNCHANGED <<syncVars, handedOut, subject, symbolSet, winConditions,
                   isInitialized, reelUpdateInterval, tornDown, isAnimating>>
    /\ IF ~areAllReelsStopped \/ \E i \in Reels : getAllReelSymbols[i] = Null
       THEN /\ Throws("handleGameResult", << >>,
                      IF ~areAllReelsStopped THEN "NotAllStopped" ELSE "NullSymbol")
            /\ resultPending' = "none"
            /\ spinButtonDisabled' = displaySpinButton(TRUE)
            /\ stopButtonsDisabled' = displayStopButtons([i \in Reels |-> FALSE])
            /\ UNCHANGED resultDisplay
       ELSE /\ gameState' = transitionToState(gameState, IDLE)
            /\ roundResults' = IF roundResults < MaxRoundResults
                               THEN roundResults + 1 ELSE roundResults
            /\ resultDisplay' = displayResult(
                   IF WinEvaluator_evaluateResult(
                          [k \in 1..REEL_COUNT |-> getAllReelSymbols[k - 1]]).isWin
                   THEN "win" ELSE "lose")
            /\ resultPending' = "delay2000"
            /\ Returns("handleGameResult", << >>, << >>)
            /\ UNCHANGED <<rmVars, stopOrder, returned, spinButtonDisabled,
                           stopButtonsDisabled>>

\* The delay(2000) of handleGameResult ends: the buttons are set for a new round.
App_buttonsReset ==
    /\ subject = "SlotMachineApp"
    /\ resultPending = "delay2000"
    /\ resultPending' = "none"
    /\ spinButtonDisabled' = displaySpinButton(TRUE)
    /\ stopButtonsDisabled' = displayStopButtons([i \in Reels |-> FALSE])
    /\ UNCHANGED <<syncVars, handedOut, subject, symbolSet, winConditions, gameState, rmVars,
                   stopOrder, returned, roundResults,
                   isInitialized, reelUpdateInterval, tornDown, isAnimating,
                   resultDisplay>>
    /\ Returns("buttonsReset", << >>, << >>)

\* The callback of the display-refresh interval.
App_refreshTick ==
    /\ subject = "SlotMachineApp"
    /\ reelUpdateInterval # "null"
    /\ reelUpdateInterval' = IF gameState = IDLE
                             THEN stopReelSymbolUpdates(reelUpdateInterval)
                             ELSE reelUpdateInterval
    /\ UNCHANGED <<syncVars, handedOut, subject, symbolSet, winConditions, gameState, rmVars,
                   stopOrder, returned, roundResults,
                   isInitialized, resultPending, tornDown, uiVars>>
    /\ Returns("refresh", << >>, << >>)

\* app.cleanup(): the UserInterface is emptied and isInitialized is reset.
App_cleanup ==
    /\ subject = "SlotMachineApp"
    /\ isInitialized' = FALSE
    /\ tornDown' = TRUE
    /\ UNCHANGED <<syncVars, handedOut, subject, symbolSet, winConditions, gameState, rmVars,
                   stopOrder, returned, roundResults,
                   reelUpdateInterval, resultPending, uiVars>>
    /\ Returns("cleanup", << >>, << >>)

\* new SlotMachineApp()
InitApp ==
    /\ subject = "SlotMachineApp"
    /\ InitWinEvaluator
    /\ InitAppVars
    /\ InitSyncVars
    /\ gameState = IDLE
    /\ InitReels
    /\ InitHistory

NextApp ==
    \/ App_initialize
    \/ App_handleSpin
    \/ \E reelIndex \in Reels : App_handleStopReel(reelIndex)
    \/ App_handleGameResult
    \/ App_buttonsReset
    \/ App_refreshTick
    \/ Tick
    \/ App_cleanup

SpecApp == InitApp /\ [][NextApp]_vars

\* A timer callback whose time has come is run: the two delays of a round end,
\* and the interval callbacks keep running.
FairTimers ==
    /\ WF_vars(App_handleGameResult)
    /\ WF_vars(App_buttonsReset)

SpecAppLive == InitApp /\ [][NextApp]_vars /\ FairTimers

-----------------------------------------------------------------------------
(* Properties *)

Range(seq) == {seq[k] : k \in 1..Len(seq)}

\* The six legal transitions of the state table.
LegalPairs ==
    {<<IDLE, SPINNING>>, <<SPINNING, PARTIALLY_STOPPED>>, <<SPINNING, SHOWING_RESULTS>>,
     <<PARTIALLY_STOPPED, PARTIALLY_STOPPED>>, <<PARTIALLY_STOPPED, SHOWING_RESULTS>>,
     <<SHOWING_RESULTS, IDLE>>}

\* C1 (as stated): transitionTo(t) returns canTransition(current, t), does not throw,
\* and the current state is different after the call iff the call returned true.
C1_StateChangesIffTrue ==
    lastOp = "transitionTo" =>
        /\ lastErr = "none"
        /\ lastRet = <<canTransition(lastPre, lastArgs[1])>>
        /\ (gameState # lastPre) <=> lastRet[1]

\* C1 (amended): transitionTo(t) returns canTransition(current, t) and does not
\* throw; when it returned true the current state is t, when it returned false the
\* current state is the one before the call; so the state is different after the
\* call iff the call returned true and was not PartiallyStopped -> PartiallyStopped.
C1_TransitionToCommitsIffTrue ==
    lastOp = "transitionTo" =>
        /\ lastErr = "none"
        /\ lastRet = <<canTransition(lastPre, lastArgs[1])>>
        /\ lastRet[1] => gameState = lastArgs[1]
        /\ ~lastRet[1] => gameState = lastPre
        /\ (gameState # lastPre) <=>
               (lastRet[1] /\ ~(lastPre = PARTIALLY_STOPPED
                                /\ lastArgs[1] = PARTIALLY_STOPPED))

\* C1 witness: the self-loop PartiallyStopped -> PartiallyStopped was accepted.
C1_Witness ==
    /\ lastOp = "transitionTo"
    /\ lastPre = PARTIALLY_STOPPED
    /\ lastArgs = <<PARTIALLY_STOPPED>>
    /\ lastRet = <<TRUE>>
    /\ gameState = PARTIALLY_STOPPED

\* C2: canTransition(from, to) is true for exactly the six legal pairs, false for
\* every other pair (the self-loops of Idle, Spinning and ShowingResults included),
\* and a call of it leaves the current state as it was.
C2_CanTransitionTable ==
    /\ \A from \in StateInputs, to \in StateInputs :
           canTransition(from, to) <=> <<from, to>> \in LegalPairs
    /\ lastOp = "canTransition" =>
           /\ lastErr = "none"
           /\ lastRet = <<(<<lastArgs[1], lastArgs[2]>> \in LegalPairs)>>
           /\ gameState = lastPre

\* C2 witness: canTransition(Idle, Idle) was called on a manager in ShowingResults
\* and returned false.
C2_Witness ==
    /\ lastOp = "canTransition"
    /\ lastArgs = <<IDLE, IDLE>>
    /\ lastRet = <<FALSE>>
    /\ gameState = SHOWING_RESULTS

\* C3: in a round started by a successful initiateSpin, whatever the order of the
\* stops, the game state is Spinning before the first stop, PartiallyStopped after
\* the first and the second, ShowingResults after the third, and Idle after the
\* evaluateResult that follows; exactly the reels stopped so far are not spinning.
C3_StopSequence ==
    /\ gameState # IDLE =>
           /\ Len(stopOrder) \in 0..REEL_COUNT
           /\ Len(stopOrder) = 0 => gameState = SPINNING
           /\ Len(stopOrder) \in {1, 2} => gameState = PARTIALLY_STOPPED
           /\ Len(stopOrder) = REEL_COUNT => gameState = SHOWING_RESULTS
           /\ \A i \in Reels : isReelSpinning(i) <=> i \notin Range(stopOrder)
    /\ (lastOp = "stopReel" /\ lastErr = "none") => gameState # IDLE
    /\ (lastOp = "evaluateResult" /\ lastErr = "none"
            /\ lastPre = SHOWING_RESULTS) => gameState = IDLE

\* C3 witness: a round stopped in the order 2, 0, 1 has been evaluated.
C3_Witness ==
    /\ lastOp = "evaluateResult"
    /\ lastErr = "none"
    /\ lastPre = SHOWING_RESULTS
    /\ stopOrder = <<2, 0, 1>>
    /\ gameState = IDLE

\* C4: GameEngine.stopReel(i) throws iff the game state is neither Spinning nor
\* PartiallyStopped or reel i is not spinning (every index outside 0..2 included);
\* otherwise it stops reel i and returns the symbol that reel was showing.
C4_StopReelThrowsIff ==
    [][lastOp' = "stopReel" =>
         /\ (lastErr' # "none") <=>
                (gameState \notin {SPINNING, PARTIALLY_STOPPED}
                    \/ ~isReelSpinning(lastArgs'[1]))
         /\ lastErr' = "none" =>
                /\ reelStates'[lastArgs'[1]] = "stopped"
                /\ lastRet' = <<getCurrentSymbolAtPosition(lastArgs'[1])>>
                /\ reelSymbols'[lastArgs'[1]] = lastRet'[1]
                /\ \A j \in Reels \ {lastArgs'[1]} : reelStates'[j] = reelStates[j]]_vars

\* C4 witness: stopReel(3) threw in state PartiallyStopped.
C4_Witness ==
    /\ lastOp = "stopReel"
    /\ lastArgs = <<REEL_COUNT>>
    /\ lastErr = "AlreadyStopped"
    /\ gameState = PARTIALLY_STOPPED

\* C5: canSpin() is true iff the game state is Idle; initiateSpin succeeds iff the
\* state before it is Idle; on success the state is Spinning and all three reels
\* spin; in Spinning, PartiallyStopped and ShowingResults it is rejected and the
\* state stays.
C5_SpinOnlyWhenIdle ==
    /\ canSpin <=> gameState = IDLE
    /\ lastOp = "initiateSpin" =>
           /\ (lastErr = "none") <=> (lastPre = IDLE)
           /\ lastErr = "none" =>
                  gameState = SPINNING /\ \A i \in Reels : isReelSpinning(i)
           /\ lastErr # "none" =>
                  /\ lastPre \in {SPINNING, PARTIALLY_STOPPED, SHOWING_RESULTS}
                  /\ gameState = lastPre

\* C5 witness: a spin request was rejected in PartiallyStopped.
C5_Witness ==
    /\ lastOp = "initiateSpin"
    /\ lastErr = "CannotSpin"
    /\ lastPre = PARTIALLY_STOPPED
    /\ gameState = PARTIALLY_STOPPED

\* C6: evaluateResult returns a result only when all three reels are stopped, and
\* every call that returns a result takes the game state from ShowingResults to Idle.
C6_EvaluateFromShowingResults ==
    (lastOp = "evaluateResult" /\ lastErr = "none") =>
        /\ areAllReelsStopped
        /\ lastPre = SHOWING_RESULTS
        /\ gameState = IDLE

\* C7: at most one result is returned per round: no second evaluateResult returns a
\* result before the next successful initiateSpin.
C7_OneResultPerRound == roundResults <= 1

\* C8: once stopReel(i) has returned s, entry i of getAllReelSymbols() is s until
\* the next spinReels, whatever ticks fire and whatever other reels are stopped;
\* the reels not stopped since the spin report isReelSpinning = true.
C8_StoppedSymbolKept ==
    \A i \in Reels :
        /\ returned[i] # Null => getAllReelSymbols[i] = returned[i]
        /\ (returned[i] = Null /\ \E j \in Reels : returned[j] # Null) =>
               isReelSpinning(i)

\* C8 witness: reels 0 and 2 are stopped on different symbols, reel 1 still spins
\* and a tick has just moved it to a third symbol.
C8_Witness ==
    /\ stopOrder = <<0, 2>>
    /\ lastOp = "tick"
    /\ returned[0] # returned[2]
    /\ getAllReelSymbols[1] \notin {returned[0], returned[2]}
    /\ isReelSpinning(1)

\* The last call was stopReel(i) for a reel i already stopped since the last spin.
SecondStop ==
    /\ lastOp = "stopReel"
    /\ \E k \in 1..Len(stopOrder) :
           /\ stopOrder[k] = lastArgs[1]
           /\ (lastErr # "none" \/ k < Len(stopOrder))

\* C9 (as stated): stopping a reel a second time without a spin in between fails
\* with an already-stopped error, on ReelManager and on GameEngine, and the symbol
\* fixed by the first stop is kept.
C9_SecondStopAlreadyStopped ==
    SecondStop =>
        /\ lastErr = "AlreadyStopped"
        /\ getAllReelSymbols[lastArgs[1]] = returned[lastArgs[1]]

\* C9 (amended): stopping a reel a second time without a spin in between fails and
\* the symbol fixed by the first stop is kept; the error is already-stopped on
\* ReelManager, and on GameEngine while the game state is PartiallyStopped; on
\* GameEngine in ShowingResults or Idle it is the illegal-state error.
C9_SecondStopFails ==
    SecondStop =>
        /\ lastErr # "none"
        /\ getAllReelSymbols[lastArgs[1]] = returned[lastArgs[1]]
        /\ subject = "ReelManager" => lastErr = "AlreadyStopped"
        /\ subject = "GameEngine" =>
               lastErr = IF lastPre = PARTIALLY_STOPPED
                         THEN "AlreadyStopped" ELSE "IllegalState"

\* C9 witness: on a GameEngine with reels 1 and 0 stopped, stopReel(1) was refused
\* as already stopped.
C9_Witness ==
    /\ subject = "GameEngine"
    /\ SecondStop
    /\ stopOrder = <<1, 0>>
    /\ lastArgs = <<1>>
    /\ lastErr = "AlreadyStopped"

\* C10: when initiateSpin, stopReel or evaluateResult throws, the game state and
\* every reel's status, fixed symbols, position and timer are as before the call.
C10_ThrowChangesNothing ==
    [][(lastOp' \in {"initiateSpin", "stopReel", "evaluateResult"}
            /\ lastErr' # "none") =>
         UNCHANGED <<gameState, reelStates, reelSymbols, reelSymbolSets,
                     reelPositions, animationIntervals, intervals>>]_vars

\* C10 witness: evaluateResult threw in PartiallyStopped while timers were running.
C10_Witness ==
    /\ lastOp = "evaluateResult"
    /\ lastErr = "NotAllStopped"
    /\ gameState = PARTIALLY_STOPPED
    /\ Cardinality(intervals) = 2


\* The number of reels that are stopped.
stoppedCount == Cardinality({i \in Reels : ~isReelSpinning(i)})

\* A call that gets the round on is possible: a stop of a spinning reel, or
\* the evaluation once all reels are stopped.
CanProgress ==
    \/ stopAllowedIn(gameState) /\ \E i \in Reels : isReelSpinning(i)
    \/ gameState = SHOWING_RESULTS /\ areAllReelsStopped

\* C11: no reachable state of the manual-stop GameEngine is a dead end: in
\* every state outside Idle, also after failed calls, a stop or the evaluation
\* can still succeed, and when stops and evaluation are taken fairly every
\* round that was started comes back to Idle.
C11_RoundReturnsToIdle ==
    /\ [](gameState # IDLE => CanProgress)
    /\ (gameState # IDLE) ~> (gameState = IDLE)

\* A second round has been played to its end and the engine is Idle again.
C11_Witness ==
    /\ gameState = IDLE
    /\ lastOp = "evaluateResult" /\ lastErr = "none"
    /\ lastPre = SHOWING_RESULTS
    /\ SpinsSoFar = 2

\* C12: the game state and the reels agree: Spinning has all three reels
\* spinning, PartiallyStopped has one or two reels stopped and the others
\* spinning, Idle and ShowingResults have no reel spinning.
C12_StateMatchesReels ==
    /\ gameState = SPINNING => stoppedCount = 0
    /\ gameState = PARTIALLY_STOPPED => stoppedCount \in {1, 2}
    /\ gameState \in {IDLE, SHOWING_RESULTS} => stoppedCount = REEL_COUNT
    /\ \A i \in Reels : reelStates[i] \in {"spinning", "stopped"}

\* Two reels are stopped and the third still spins.
C12_Witness ==
    /\ gameState = PARTIALLY_STOPPED
    /\ stoppedCount = 2
    /\ lastOp = "stopReel" /\ lastErr = "none"


\* An array of exactly three symbols, each present with non-empty id, name and
\* glyph.
WellFormed(symbols) ==
    /\ symbols.present
    /\ Len(symbols.items) = 3
    /\ \A k \in 1..3 :
          /\ symbols.items[k].present
          /\ symbols.items[k].id # ""
          /\ symbols.items[k].name # ""
          /\ symbols.items[k].displayValue # ""

\* The registered conditions whose predicate holds of the symbols.
Matching(items) ==
    {k \in 1..Len(winConditions) : patternHolds(winConditions[k].pattern, items)}

\* C13: for every input, absent, of a wrong length, with a malformed symbol or
\* well-formed, and every registered list, isWinningCombination(symbols) equals
\* evaluateResult(symbols).isWin, and neither call throws.
C13_IsWinningAgrees ==
    /\ \A symbols \in SymbolInputs :
          isWinningCombination(symbols) = evaluateResult(symbols).isWin
    /\ lastOp = "isWinningCombination" =>
          /\ lastErr = "none"
          /\ lastRet = <<evaluateResult(lastArgs[1]).isWin>>
    /\ lastOp = "evaluateResult" =>
          /\ lastErr = "none"
          /\ lastRet[1].isWin = isWinningCombination(lastArgs[1])

\* isWinningCombination returned true for symbols that only the second
\* registered condition matches.
C13_Witness ==
    /\ lastOp = "isWinningCombination"
    /\ lastRet = <<TRUE>>
    /\ Len(winConditions) = 2
    /\ Matching(lastArgs[1].items) = {2}

\* C14: with only the default condition, evaluateResult on three well-formed
\* catalog symbols reports a win of type "three_of_a_kind" exactly when the
\* three ids are equal, and otherwise no win and no winType.
C14_DefaultConditionOnly ==
    (/\ winConditions = <<DefaultCondition>>
     /\ lastOp = "evaluateResult"
     /\ WellFormed(lastArgs[1]))
    => LET items == lastArgs[1].items
           same == items[1].id = items[2].id /\ items[2].id = items[3].id
       IN  /\ lastErr = "none"
           /\ (lastRet[1].isWin /\ lastRet[1].winType = "three_of_a_kind") <=> same
           /\ ~same => (~lastRet[1].isWin /\ lastRet[1].winType = Null)

\* Three lemons were evaluated with only the default condition, and won.
C14_Witness ==
    /\ winConditions = <<DefaultCondition>>
    /\ lastOp = "evaluateResult"
    /\ lastArgs = <<Array(<<Lemon, Lemon, Lemon>>)>>
    /\ lastRet[1].isWin

\* C15: when three well-formed symbols match no registered condition,
\* evaluateResult returns isWin = false and the message is the three glyphs in
\* reel order, joined by single spaces, followed by the try-again suffix.
C15_LoseMessage ==
    (/\ lastOp = "evaluateResult"
     /\ WellFormed(lastArgs[1])
     /\ Matching(lastArgs[1].items) = {})
    => /\ lastErr = "none"
       /\ lastRet[1].isWin = FALSE
       /\ lastRet[1].winType = Null
       /\ lastRet[1].message =
              lastArgs[1].items[1].displayValue \o " "
                  \o lastArgs[1].items[2].displayValue \o " "
                  \o lastArgs[1].items[3].displayValue
                  \o " - Too bad! Try again next time!"

\* Cherry, lemon, lemon lost against two registered conditions.
C15_Witness ==
    /\ lastOp = "evaluateResult"
    /\ lastArgs = <<Array(<<Cherry, Lemon, Lemon>>)>>
    /\ Len(winConditions) = 2
    /\ lastRet[1].message = "[cherry] [lemon] [lemon] - Too bad! Try again next time!"

\* C16: when several registered conditions match the symbols, evaluateResult
\* returns the id and the message of the one that comes first in the list, for
\* every list that addWinCondition calls have built.
C16_FirstRegisteredWins ==
    (/\ lastOp = "evaluateResult"
     /\ WellFormed(lastArgs[1])
     /\ Cardinality(Matching(lastArgs[1].items)) >= 2)
    => LET first == CHOOSE k \in Matching(lastArgs[1].items) :
                        \A j \in Matching(lastArgs[1].items) : k <= j
       IN  /\ lastRet[1].isWin
           /\ lastRet[1].winType = winConditions[first].id
           /\ lastRet[1].message = winConditions[first].message

\* Two conditions with different messages matched, the first is not the one
\* the constructor installed.
C16_Witness ==
    /\ lastOp = "evaluateResult"
    /\ WellFormed(lastArgs[1])
    /\ Matching(lastArgs[1].items) = {1, 2}
    /\ winConditions[1].message # winConditions[2].message
    /\ winConditions[1] # DefaultCondition
    /\ lastRet[1].message = winConditions[1].message


\* The ids of the registered conditions are pairwise distinct.
DistinctIds ==
    \A j \in 1..Len(winConditions), k \in 1..Len(winConditions) :
        winConditions[j].id = winConditions[k].id => j = k

\* A step that is a call addWinCondition(lastArgs'[1]) that returned.
AddReturned == lastOp' = "addWinCondition" /\ lastErr' = "none"

\* C17: the ids of the registered conditions are always pairwise distinct; an
\* addWinCondition with a new id appends the condition at the end, one with a
\* registered id replaces that entry where it stands and leaves the length and
\* every other entry as they were, the default "three_of_a_kind" included.
C17_AddAppendsOrReplaces ==
    /\ [](DistinctIds /\ winConditions[1].id = "three_of_a_kind")
    /\ [][AddReturned =>
            LET condition == lastArgs'[1]
                registered == {k \in 1..Len(winConditions) :
                                  winConditions[k].id = condition.id}
            IN  IF registered = {}
                THEN /\ Len(winConditions') = Len(winConditions) + 1
                     /\ winConditions'[Len(winConditions')] = condition
                     /\ \A k \in 1..Len(winConditions) :
                            winConditions'[k] = winConditions[k]
                ELSE /\ Len(winConditions') = Len(winConditions)
                     /\ \A k \in 1..Len(winConditions) :
                            winConditions'[k] = IF k \in registered THEN condition
                                                ELSE winConditions[k]]_vars

\* The default condition was overridden where it stands, in front of another
\* condition.
C17_Witness ==
    /\ lastOp = "addWinCondition" /\ lastErr = "none"
    /\ Len(winConditions) = 2
    /\ lastArgs[1].id = "three_of_a_kind"
    /\ winConditions[1] = lastArgs[1]
    /\ winConditions[1] # DefaultCondition
    /\ winConditions[2].id = "cherry_bonus"

\* A condition that is absent or lacks its id, name, predicate or message.
InvalidCondition(condition) ==
    \/ ~condition.present
    \/ condition.id = ""
    \/ condition.name = ""
    \/ condition.pattern = Null
    \/ condition.message = ""

\* C18: addWinCondition throws when the condition is absent or its id, name,
\* predicate or message is missing or empty, and the registered list is then
\* unchanged.
C18_InvalidConditionThrows ==
    [][(lastOp' = "addWinCondition" /\ InvalidCondition(lastArgs'[1]))
          => (lastErr' = "InvalidCondition" /\ winConditions' = winConditions)]_vars

\* A condition with an empty message was refused with two conditions registered.
C18_Witness ==
    /\ lastOp = "addWinCondition"
    /\ lastErr = "InvalidCondition"
    /\ lastArgs[1].present /\ lastArgs[1].message = ""
    /\ Len(winConditions) = 2

\* The losing messages of well-formed symbols.
NormalLoseMessages ==
    {a.displayValue \o " " \o b.displayValue \o " " \o c.displayValue \o LoseSuffix :
        a \in {Cherry, Lemon}, b \in {Cherry, Lemon}, c \in {Cherry, Lemon}}

\* C19: on an input that is absent, not of length 3, or has a symbol that is
\* absent or has an empty id, name or glyph, evaluateResult does not throw and
\* returns isWin = false, no winType and an error message that is no normal
\* losing message, and calls no condition's predicate.
C19_MalformedInputFailsSoft ==
    (lastOp = "evaluateResult" /\ ~WellFormed(lastArgs[1]))
    => /\ lastErr = "none"
       /\ lastRet[1].isWin = FALSE
       /\ lastRet[1].winType = Null
       /\ lastRet[1].message \in {InvalidArrayMessage, InvalidSymbolMessage}
       /\ lastRet[1].message \notin NormalLoseMessages
       /\ patternCalls(lastArgs[1]) = 0

\* A triple whose third symbol has no glyph was evaluated.
C19_Witness ==
    /\ lastOp = "evaluateResult"
    /\ lastArgs = <<Array(<<Cherry, Cherry, Symbol("cherry", "Cherry", "")>>)>>
    /\ lastRet[1].message = InvalidSymbolMessage
    /\ Len(winConditions) = 2


\* A catalog that is empty, has a symbol that is absent or lacks its id, name
\* or glyph, or has two symbols with one id.
InvalidCatalog(symbols) ==
    \/ Len(symbols.items) = 0
    \/ \E k \in 1..Len(symbols.items) :
          \/ ~symbols.items[k].present
          \/ symbols.items[k].id = ""
          \/ symbols.items[k].name = ""
          \/ symbols.items[k].displayValue = ""
    \/ \E j \in 1..Len(symbols.items), k \in 1..Len(symbols.items) :
          j # k /\ symbols.items[j].id = symbols.items[k].id

\* C20: the ReelManager constructor throws for a catalog that is empty, has a
\* symbol with an empty or missing id, name or glyph, or has two symbols with
\* one id, so that a constructed ReelManager holds a non-empty catalog whose ids
\* are pairwise distinct.
C20_OnlyValidCatalogs ==
    /\ (lastOp = "constructor" /\ InvalidCatalog(symbolSetGiven(lastArgs[1])))
          => lastErr = "InvalidSymbolSet"
    /\ subject = "ReelManager" =>
          /\ Len(symbolSet) > 0
          /\ \A j \in 1..Len(symbolSet), k \in 1..Len(symbolSet) :
                symbolSet[j] = symbolSet[k] => j = k


\* C21: a reel's status changes only by spinReels, to spinning, and by a
\* stopReel(i) that returns, for reel i, to stopped; timer ticks and the queries
\* change no status, and stopReel(i) changes neither the status nor the fixed
\* symbol of another reel.
C21_StatusChangesOnlyBySpinAndStop ==
    [][/\ \A i \in Reels :
            reelStates'[i] # reelStates[i] =>
                \/ lastOp' = "spinReels" /\ reelStates'[i] = "spinning"
                \/ /\ lastOp' = "stopReel" /\ lastArgs' = <<i>> /\ lastErr' = "none"
                   /\ reelStates'[i] = "stopped"
       /\ lastOp' \in {"tick", "isReelSpinning", "getAllReelSymbols"} =>
            reelStates' = reelStates
       /\ lastOp' = "stopReel" =>
            \A j \in Reels \ {lastArgs'[1]} :
                /\ reelStates'[j] = reelStates[j]
                /\ reelSymbols'[j] = reelSymbols[j]
                /\ reelSymbolSets'[j] = reelSymbolSets[j]]_vars

\* Reel 1 was stopped while reel 0 was stopped before and reel 2 still spins.
C21_Witness ==
    /\ lastOp = "stopReel" /\ lastArgs = <<1>> /\ lastErr = "none"
    /\ stopOrder = <<0, 1>>
    /\ reelStates = [i \in Reels |-> IF i = 2 THEN "spinning" ELSE "stopped"]

\* C22: spinReels, whatever the reels were before, leaves all three spinning
\* with no fixed symbol, so that a reel that is stopped after a spin reports the
\* symbol its stop in this round fixed, never one of the round before.
C22_SpinDiscardsFixedSymbols ==
    /\ lastOp = "spinReels" =>
          \A i \in Reels :
              /\ reelStates[i] = "spinning"
              /\ reelSymbols[i] = Null
              /\ reelSymbolSets[i] = << >>
    /\ SpinsSoFar > 0 =>
          \A i \in Reels :
              reelStates[i] = "stopped" =>
                  /\ i \in Range(stopOrder)
                  /\ getAllReelSymbols[i] = returned[i]

\* A second spinReels was called: all reels spin and none holds a symbol.
C22_Witness ==
    /\ lastOp = "spinReels"
    /\ SpinsSoFar = 2
    /\ stopOrder = << >>
    /\ \A i \in Reels : reelStates[i] = "spinning" /\ reelSymbols[i] = Null

\* C23: getAllReelSymbols() has an entry for each of the 3 reels and the entry
\* of a spinning reel is a symbol of the catalog, the position of every reel
\* staying within 0..Len(symbolSet)-1 under the timer ticks.
C23_SpinningReelShowsCatalogSymbol ==
    /\ \A i \in Reels : reelPositions[i] \in 0..(Len(symbolSet) - 1)
    /\ DOMAIN getAllReelSymbols = 0..2
    /\ \A i \in Reels :
          isReelSpinning(i) => /\ getAllReelSymbols[i] # Null
                               /\ getAllReelSymbols[i] \in Range(symbolSet)
    /\ lastOp = "getAllReelSymbols" =>
          /\ lastErr = "none"
          /\ lastRet = <<getAllReelSymbols>>

\* getAllReelSymbols was called with reel 2 spinning at the last position of a
\* catalog of three.
C23_Witness ==
    /\ lastOp = "getAllReelSymbols"
    /\ Len(symbolSet) = 3
    /\ isReelSpinning(2)
    /\ reelPositions[2] = 2
    /\ lastRet[1][2] = symbolSet[3]

\* C24: for an index outside 0..2 isReelSpinning returns false and stopReel
\* throws the invalid-index error, in every state, and changes no reel; for an
\* index inside 0..2 whose reel is stopped stopReel throws the already-stopped
\* error.
C24_IndexChecks ==
    [][/\ (lastOp' = "isReelSpinning" /\ lastArgs'[1] \notin 0..2) =>
            (lastErr' = "none" /\ lastRet' = <<FALSE>>)
       /\ (lastOp' = "stopReel" /\ lastArgs'[1] \notin 0..2) =>
            (lastErr' = "InvalidIndex" /\ rmVars' = rmVars)
       /\ (lastOp' = "stopReel" /\ lastArgs'[1] \in 0..2) =>
            (reelStates[lastArgs'[1]] = "stopped" =>
                (lastErr' = "AlreadyStopped" /\ rmVars' = rmVars))]_vars

\* stopReel(3) failed with all reels stopped after a round.
C24_Witness ==
    /\ lastOp = "stopReel" /\ lastArgs = <<3>> /\ lastErr = "InvalidIndex"
    /\ SpinsSoFar = 1
    /\ \A i \in Reels : reelStates[i] = "stopped"

\* The live timers whose callback moves reel i.
timersOf(i) == {t \in intervals : t.reel = i}

\* C27: reel i has a live animation interval exactly while it spins, never more
\* than one, it is the one whose handle the reel holds, and no tick moves a
\* stopped reel.
C27_TimerIffSpinning ==
    /\ [](\A i \in Reels :
            /\ Cardinality(timersOf(i)) <= 1
            /\ timersOf(i) # {} <=> reelStates[i] = "spinning"
            /\ animationIntervals[i] = {t.id : t \in timersOf(i)})
    /\ [][\A i \in Reels :
            (lastOp' = "tick" /\ reelStates[i] = "stopped") =>
                reelPositions'[i] = reelPositions[i]]_vars

\* Reel 0 was stopped in the second round: its timer is gone, the other two run.
C27_Witness ==
    /\ lastOp = "stopReel" /\ lastArgs = <<0>> /\ lastErr = "none"
    /\ SpinsSoFar = 2
    /\ timersOf(0) = {}
    /\ timersOf(1) # {} /\ timersOf(2) # {}


\* C29: the symbols fixed by stopReel and the result of the round are the same
\* whatever number of timer ticks fire between the calls. With no tick at all
\* every reel is stopped at position 0, so each stopReel returns the first
\* symbol of the catalog and the round is won.
C29_OutcomeIndependentOfTicks ==
    /\ (lastOp = "stopReel" /\ lastErr = "none") => lastRet = <<symbolSet[1]>>
    /\ (lastOp = "evaluateResult" /\ lastErr = "none") => lastRet[1].winResult.isWin

\* The transition table of the 3-state machine.
ThreeStates == {IDLE, SPINNING, SHOWING_RESULTS}

ThreeStatePairs ==
    {<<IDLE, SPINNING>>, <<SPINNING, SHOWING_RESULTS>>, <<SHOWING_RESULTS, IDLE>>}

\* C30: on the states Idle, Spinning and ShowingResults canTransition holds
\* exactly for the three transitions of the 3-state table, and every step of
\* the 3-state machine is accepted and committed by transitionTo.
C30_ThreeStateTableKept ==
    /\ \A from \in ThreeStates, to \in ThreeStates :
          canTransition(from, to) <=> <<from, to>> \in ThreeStatePairs
    /\ (lastOp = "canTransition" /\ lastArgs[1] \in ThreeStates
            /\ lastArgs[2] \in ThreeStates) =>
          lastRet = <<(<<lastArgs[1], lastArgs[2]>> \in ThreeStatePairs)>>
    /\ (lastOp = "transitionTo" /\ <<lastPre, lastArgs[1]>> \in ThreeStatePairs) =>
          (lastRet = <<TRUE>> /\ gameState = lastArgs[1])

\* The step Spinning -> ShowingResults of the 3-state machine was taken.
C30_Witness ==
    /\ lastOp = "transitionTo"
    /\ lastPre = SPINNING
    /\ lastArgs = <<SHOWING_RESULTS>>
    /\ lastRet = <<TRUE>>
    /\ gameState = SHOWING_RESULTS


\* C25: an initiateSpin of the synchronous engine that returns has gone
\* Idle, Spinning, ShowingResults, Idle in this order and returns three symbols
\* of the catalog; after a call that returned, or that threw after it had
\* started (the draw or the evaluation failed), the state is Idle and canSpin()
\* is true.
C25_SyncSpinCycle ==
    /\ (lastOp = "initiateSpin" /\ lastErr = "none") =>
          /\ visited = <<IDLE, SPINNING, SHOWING_RESULTS, IDLE>>
          /\ Len(lastRet[1].symbols) = 3
          /\ \A k \in 1..3 : lastRet[1].symbols[k] \in Range(symbolSet)
          /\ gameState = IDLE
          /\ canSpin
    /\ (lastOp = "initiateSpin" /\ lastErr \notin {"none", "CannotSpin"}) =>
          /\ lastErr \in {"DrawFailed", "EvaluationFailed"}
          /\ gameState = IDLE
          /\ canSpin
    /\ (lastOp = "canSpin" /\ suspended = 0) => lastRet = <<TRUE>>

\* After a round that returned a result, a round failed in the evaluation.
C25_Witness ==
    /\ lastOp = "initiateSpin"
    /\ lastErr = "EvaluationFailed"
    /\ roundResults = 1
    /\ visited = <<IDLE, SPINNING, SHOWING_RESULTS, IDLE>>
    /\ gameState = IDLE

\* C26: while an initiateSpin call is suspended at its await every further
\* initiateSpin call is rejected and leaves the game state as it is, never two
\* calls are suspended, and the suspended call completes and leaves Idle.
C26_OneSpinInFlight ==
    /\ [](/\ suspended <= 1
          /\ suspended = 1 <=> gameState = SPINNING
          /\ suspended = 0 <=> gameState = IDLE)
    /\ [][suspended > 0 =>
            /\ lastOp' # "await"
            /\ (lastOp' = "initiateSpin" /\ suspended' = suspended) =>
                   (lastErr' = "CannotSpin" /\ gameState' = gameState)
            /\ suspended' < suspended =>
                   (lastOp' = "initiateSpin" /\ gameState' = IDLE)]_vars
    /\ (suspended > 0) ~> (suspended = 0 /\ gameState = IDLE)

\* A second initiateSpin was rejected while the first is suspended.
C26_Witness ==
    /\ lastOp = "initiateSpin"
    /\ lastErr = "CannotSpin"
    /\ suspended = 1
    /\ gameState = SPINNING


\* C28: after SlotMachineApp.cleanup(), in whatever game state it was called,
\* no timer of the instance is active: no reel animation interval and no
\* display-refresh interval is left to fire.
C28_NoTimerAfterCleanup ==
    tornDown => (intervals = {} /\ reelUpdateInterval = "null")


\* C32: ReelManager.stopReel(i) fixes the symbol on display: it returns entry i
\* of getAllReelSymbols() as it was right before the call, which is the catalog
\* symbol at index k mod N for k the ticks of reel i since the last spinReels;
\* every spinReels puts every reel at position 0.
C32_StopFixesDisplayedSymbol ==
    /\ [](\A i \in Reels :
            ticks.n[i] <= MaxTicks =>
                reelPositions[i] = ticks.n[i] % Len(symbolSet))
    /\ [][/\ (lastOp' = "stopReel" /\ lastErr' = "none") =>
                LET i == lastArgs'[1] IN
                /\ lastRet' = <<getAllReelSymbols[i]>>
                /\ reelSymbols'[i] = getAllReelSymbols[i]
                /\ ticks.n[i] <= MaxTicks =>
                      lastRet' = <<symbolSet[(ticks.n[i] % Len(symbolSet)) + 1]>>
          /\ lastOp' = "spinReels" => reelPositions' = [i \in Reels |-> 0]]_vars

\* stopReel(i) returned after three ticks of reel i on a catalog of two symbols:
\* the second symbol.
C32_Witness ==
    /\ lastOp = "stopReel" /\ lastErr = "none"
    /\ ticks.counting
    /\ Len(symbolSet) = 2
    /\ ticks.n[lastArgs[1]] = 3
    /\ lastRet = <<symbolSet[2]>>
    /\ SpinsSoFar = 2

\* C33: generateRandomSymbol returns the catalog symbol at index floor(r * N):
\* always a symbol of the catalog, each symbol of the catalog for some r, and
\* the call changes neither the catalog nor a reel's status, position or symbol.
C33_RandomSymbolFromCatalog ==
    /\ [](subject = "ReelManager" =>
            {symbolSet[randomIndex(k, Len(symbolSet)) + 1] : k \in RandomValues}
                = Range(symbolSet))
    /\ [][lastOp' = "generateRandomSymbol" =>
            /\ lastErr' = "none"
            /\ lastRet'[1] \in Range(symbolSet)
            /\ lastRet'[1] =
                  symbolSet[((lastArgs'[1] * Len(symbolSet)) \div RandomGrid) + 1]
            /\ UNCHANGED <<symbolSet, reelStates, reelSymbols, reelSymbolSets,
                           reelPositions, animationIntervals, intervals>>]_vars

\* The last symbol of a catalog of three was generated while a reel is spinning
\* and another holds its fixed symbol.
C33_Witness ==
    /\ lastOp = "generateRandomSymbol"
    /\ Len(symbolSet) = 3
    /\ lastRet = <<symbolSet[3]>>
    /\ \E i, j \in Reels : reelStates[i] = "spinning" /\ reelSymbols[j] # Null


\* C34: the spin button of the SlotMachineApp is enabled only while the engine
\* is Idle: a handled spin click disables it, only the end of the result delay
\* of an evaluated round enables it again, and a spin click during a round
\* starts no round and changes no engine state.
C34_SpinButtonOnlyInIdle ==
    /\ []((~tornDown /\ ~spinButtonDisabled) => gameState = IDLE)
    /\ [][/\ (lastOp' = "spinClick" /\ lastErr' = "none") => spinButtonDisabled'
          /\ (spinButtonDisabled /\ ~spinButtonDisabled') =>
                /\ lastOp' = "buttonsReset"
                /\ gameState' = IDLE
                /\ roundResults' >= 1
          /\ (lastOp' = "spinClick" /\ gameState # IDLE) =>
                /\ lastErr' = "Ignored"
                /\ UNCHANGED <<gameState, reelStates, reelSymbols, reelSymbolSets,
                               reelPositions, animationIntervals, intervals,
                               nextTimerId, roundResults>>]_vars

\* The spin button was clicked with one reel stopped and two spinning.
C34_Witness ==
    /\ lastOp = "spinClick" /\ lastErr = "Ignored"
    /\ gameState = PARTIALLY_STOPPED
    /\ spinButtonDisabled
    /\ ~tornDown

\* The round of the app is over: evaluated once, its result on display, the
\* engine Idle, no display-refresh interval, the spin button enabled and the
\* stop buttons disabled.
RoundDone ==
    /\ roundResults = 1
    /\ resultDisplay \in {"win", "lose"}
    /\ gameState = IDLE
    /\ reelUpdateInterval = "null"
    /\ ~spinButtonDisabled
    /\ \A i \in Reels : stopButtonsDisabled[i]

C36_GettersReturnCopies ==
    [][/\ lastOp' = "getWinConditions" =>
            (handedOut'.items = winConditions /\ UNCHANGED winConditions)
       /\ lastOp' = "getSymbolSet" =>
            (handedOut'.items = symbolSet /\ UNCHANGED symbolSet)
       /\ lastOp' \in {"push", "pop"} =>
            /\ UNCHANGED <<winConditions, symbolSet>>
            /\ getAllReelSymbols' = getAllReelSymbols
            /\ \A a, b \in {Cherry, Lemon} :
                   evaluateResult(Array(<<a, b, Cherry>>))'
                       = evaluateResult(Array(<<a, b, Cherry>>))]_vars

\* The caller has emptied the array that getSymbolSet() returned for a catalog
\* of two symbols, while reels spin.
C36_Witness ==
    /\ lastOp = "pop"
    /\ handedOut.source = "symbolSet"
    /\ handedOut.items = << >>
    /\ Len(symbolSet) = 2
    /\ \E i \in Reels : reelStates[i] = "spinning"


\* The three reels of the round were stopped after the same number of ticks.
StoppedOnSameTick ==
    /\ Len(stopOrder) = REEL_COUNT
    /\ \A i \in Reels : reelStates[i] = "stopped"
    /\ \A i \in Reels : ticks.n[i] <= MaxTicks /\ ticks.n[i] = ticks.n[0]

\* C37: manual-stop GameEngine with the default win condition: three reels
\* stopped after the same number of ticks since the spin (after none: on
\* catalog index 0) hold the same symbol, and evaluateResult reports a win.
C37_SameTickWins ==
    /\ [](StoppedOnSameTick =>
            \A i \in Reels :
                /\ reelSymbols[i] = symbolSet[(ticks.n[0] % Len(symbolSet)) + 1]
                /\ ticks.n[0] = 0 => reelSymbols[i] = symbolSet[1])
    /\ [][(StoppedOnSameTick /\ lastOp' = "evaluateResult" /\ lastErr' = "none") =>
            /\ lastRet'[1].winResult.isWin
            /\ lastRet'[1].winResult.winType = "three_of_a_kind"
            /\ \A i \in Reels : lastRet'[1].symbols[i] = lastRet'[1].symbols[0]]_vars

\* Each reel was stopped after two ticks and the round evaluated, on a catalog
\* of three symbols.
C37_Witness ==
    /\ lastOp = "evaluateResult" /\ lastErr = "none"
    /\ StoppedOnSameTick
    /\ ticks.counting
    /\ ticks.n[0] = 2
    /\ Len(symbolSet) = 3
    /\ lastRet[1].winResult.isWin


\* C38: every transitionTo request the manual-stop GameEngine makes in
\* initiateSpin, stopReel and evaluateResult is accepted by the StateManager, so
\* no return value it ignores is false, and it never requests the self-loop
\* PartiallyStopped -> PartiallyStopped.
C38_EveryRequestAccepted ==
    [][/\ (lastOp' = "initiateSpin" /\ lastErr' = "none") =>
             transitionToResult(gameState, SPINNING)
       /\ (lastOp' = "stopReel" /\ lastErr' = "none") =>
             IF allStopped(reelStates')
             THEN transitionToResult(gameState, SHOWING_RESULTS)
             ELSE /\ gameState = SPINNING =>
                        transitionToResult(gameState, PARTIALLY_STOPPED)
                  /\ gameState = PARTIALLY_STOPPED => gameState' = gameState
       /\ (lastOp' = "evaluateResult" /\ lastErr' = "none") =>
             transitionToResult(gameState, IDLE)]_vars

====
